---- MODULE Spec2Model ----
(***************************************************************************)
(* A model of the trust-bounded orchestration engine of liku-enterprise:   *)
(* the ConcurrencyLimiter, the TaskRegistry, the plan validator and the    *)
(* Orchestrator's run() pipeline with its DAG scheduler.                   *)
(*                                                                         *)
(* The program is single-threaded JavaScript.  Every action below is one   *)
(* synchronous segment of code: from a call or the resumption of an await  *)
(* up to the next await or return.  Continuations of promises that were    *)
(* resolved by the program itself run in the order in which the promises   *)
(* were resolved (the microtask queue is FIFO).                            *)
(***************************************************************************)
EXTENDS Integers, Sequences, FiniteSets, TLC

(***************************************************************************)
(* Bounds of the model.                                                    *)
(***************************************************************************)
MaxCalls == 3          \* run()/tryRun() calls made on the stand-alone limiter
MaxN == 2              \* largest maxConcurrent the stand-alone limiter is built with
MaxCreates == 3        \* create() calls made on a registry
MaxFaults == 2         \* collaborator calls of one run that end other than in success
MaxPlanSteps == 3      \* steps of the plans handed to validatePlan on its own
MaxSegments == 3       \* segments of the paths handed to getResidencePrivilege
MaxDecls == 2          \* <skill> elements of one skills.xml handed to the loader
MaxRetryCount == 2     \* largest retryCount a reflect-repair loop is entered with

\* values fixed by the program
LimiterSlots == 5      \* new ConcurrencyLimiter(5) in the Orchestrator's constructor
DefaultMaxTasks == 1000  \* TaskRegistry's default maxTasks
DefaultMaxConcurrency == 5  \* maxConcurrency of getDefaultConfig()

VARIABLES
  \* ---- ConcurrencyLimiter (src/liku/utils/concurrencyLimiter.ts) ----
  maxConcurrent,       \* this.maxConcurrent
  queueTimeoutMs,      \* this.queueTimeoutMs (0 = no timeout)
  currentCount,        \* this.currentCount
  queue,               \* this.queue: the waiting entries, oldest first
  resolved,            \* waiters whose entry was resolved and whose continuation
                       \* after `await this.waitForSlot()` has not run yet (FIFO)
  lpc,                 \* where each caller of the limiter is
  \* ---- history of the stand-alone limiter (observations, not program state) ----
  startLog,            \* calls in the order in which their task was started
  enqLog,              \* calls in the order in which they were put on the queue
  waitingAt,           \* per call: the callers that were waiting when it arrived
  \* ---- TaskRegistry (src/unnamed/part_004) ----
  maxTasks,            \* this.maxTasks
  tasks,               \* this.tasks: the TaskState records, in Map insertion order
  abortControllers,    \* this.abortControllers: per task id "absent", "live" or "aborted"
  nextTaskId,          \* the ids generateTaskId() has handed out so far
  now,                 \* the clock read by isoNow()
  \* ---- one Orchestrator.run() (src/liku/orchestrator/orchestrator.ts) ----
  input,               \* the OrchestrationInput, with config merged over the defaults
  runPc,               \* the await at which run() stands
  taskId,              \* the id returned by taskRegistry.create
  steps,               \* run()'s `steps`: the StepResults pushed so far
  plan,                \* run()'s `plan`
  runResult,           \* the kind of the OrchestrationResult returned
  stage,               \* the pipeline stage in progress: where it is, its status
  sched,               \* executeStepsWithEvents: completed, results, current batch
  phase,               \* per plan step: idle, queued, bundle, llm, settled, finished
  sres,                \* per plan step: the status of its StepResult
  esc,                 \* the EscalationInfo of the stage's, of each plan step's
                       \* and of the run's result
  expired,             \* Date.now() - startTime > config.totalTimeoutMs
  eventQueue,          \* handler calls queued by emitEvent, oldest first
  handled,             \* per event type: the handler calls made
  \* ---- a call of one of the pure functions (validatePlan, ...) ----
  probe                \* the function called, its arguments and what it returned

limVars == <<maxConcurrent, queueTimeoutMs, currentCount, queue, resolved, lpc>>
limHist == <<startLog, enqLog, waitingAt>>
regVars == <<maxTasks, tasks, abortControllers, nextTaskId, now>>
runVars == <<input, runPc, taskId, steps, plan, runResult, stage, sched, phase, sres, esc,
             expired, eventQueue, handled>>

\* what an operation of one component leaves alone in the others
LimFrame == UNCHANGED <<regVars, runVars, probe>>
RegFrame == UNCHANGED <<limVars, limHist, runVars, probe>>

(***************************************************************************)
(* Sequence helpers.                                                       *)
(***************************************************************************)
Range(s) == {s[i] : i \in DOMAIN s}

\* Array.prototype.splice(idx, 1) after indexOf(entry): drop the entry c
\* (a faulty variant, for comparison: the entry is left where it is)
RemoveNothing(s, c) == s
RemoveEntry(s, c) == SelectSeq(s, LAMBDA e : e # c)

\* the position of c in s (0 when absent)
IndexOf(s, c) == IF c \in Range(s) THEN CHOOSE i \in DOMAIN s : s[i] = c ELSE 0

(***************************************************************************)
(* ConcurrencyLimiter, as operators on its fields.                         *)
(***************************************************************************)
Calls == 1..MaxCalls

\* get atCapacity(): the test made by run() and tryRun()
AtCapacity(count, max) == count >= max

\* this.queue.shift(): the entry taken and the queue that is left
\* (a faulty variant, for comparison: the newest entry is taken)
ShiftTakesLast(q) == [entry |-> q[Len(q)], rest |-> SubSeq(q, 1, Len(q) - 1)]
Shift(q) == [entry |-> Head(q), rest |-> Tail(q)]

\* `this.currentCount--` in run()'s finally block
FinallyCount(count) == count - 1

\* `this.currentCount++` in run(), reached with or without a wait
AcquireCount(count) == count + 1

Waiting == Range(queue) \cup Range(resolved)
Running == {c \in DOMAIN lpc : lpc[c] = "running"}

\* run(task), first segment: up to `await this.waitForSlot()` or up to the
\* first await inside task()
LimRun(c) ==
  /\ LimFrame
  /\ lpc[c] = "idle"
  /\ waitingAt' = [waitingAt EXCEPT ![c] = Waiting]
  /\ IF AtCapacity(currentCount, maxConcurrent)
       THEN \* waitForSlot(): this.queue.push(entry)
            /\ queue' = Append(queue, c)
            /\ lpc' = [lpc EXCEPT ![c] = "queued"]
            /\ enqLog' = Append(enqLog, c)
            /\ UNCHANGED <<currentCount, startLog>>
       ELSE /\ currentCount' = AcquireCount(currentCount)
            /\ lpc' = [lpc EXCEPT ![c] = "running"]
            /\ startLog' = Append(startLog, c)
            /\ UNCHANGED <<queue, enqLog>>
  /\ UNCHANGED <<maxConcurrent, queueTimeoutMs, resolved>>

\* tryRun(task): null at capacity, run(task) otherwise
LimTryRun(c) ==
  /\ LimFrame
  /\ lpc[c] = "idle"
  /\ waitingAt' = [waitingAt EXCEPT ![c] = Waiting]
  /\ IF AtCapacity(currentCount, maxConcurrent)
       THEN /\ lpc' = [lpc EXCEPT ![c] = "refused"]
            /\ UNCHANGED <<currentCount, startLog>>
       ELSE /\ currentCount' = AcquireCount(currentCount)
            /\ lpc' = [lpc EXCEPT ![c] = "running"]
            /\ startLog' = Append(startLog, c)
  /\ UNCHANGED <<maxConcurrent, queueTimeoutMs, queue, resolved, enqLog>>

\* (a faulty variant, for comparison: run() without the try/finally, so that
\* a rejected task() leaves run() before the count is decremented)
LimTaskSettlesNoFinally(c, how) ==
  /\ LimFrame
  /\ lpc[c] = "running"
  /\ lpc' = [lpc EXCEPT ![c] = how]
  /\ currentCount' = IF how = "threw" THEN currentCount ELSE FinallyCount(currentCount)
  /\ IF queue # <<>> /\ how # "threw"
       THEN /\ queue' = Shift(queue).rest
            /\ resolved' = Append(resolved, Shift(queue).entry)
       ELSE UNCHANGED <<queue, resolved>>
  /\ UNCHANGED <<maxConcurrent, queueTimeoutMs>>
  /\ UNCHANGED limHist

\* (a faulty variant, for comparison: the finally block gives the count
\* back and releases nobody)
LimTaskSettlesNoRelease(c, how) ==
  /\ LimFrame
  /\ lpc[c] = "running"
  /\ currentCount' = FinallyCount(currentCount)
  /\ lpc' = [lpc EXCEPT ![c] = how]
  /\ UNCHANGED <<queue, resolved>>
  /\ UNCHANGED <<maxConcurrent, queueTimeoutMs>>
  /\ UNCHANGED limHist

\* run(task), the finally block, entered when task() settles: `how` is
\* "returned" for a fulfilled task and "threw" for a rejected one
LimTaskSettles(c, how) ==
  /\ LimFrame
  /\ lpc[c] = "running"
  /\ currentCount' = FinallyCount(currentCount)
  /\ lpc' = [lpc EXCEPT ![c] = how]
  /\ IF queue # <<>>
       THEN \* clearTimeout(next.timeoutId); next.resolve()
            /\ queue' = Shift(queue).rest
            /\ resolved' = Append(resolved, Shift(queue).entry)
       ELSE UNCHANGED <<queue, resolved>>
  /\ UNCHANGED <<maxConcurrent, queueTimeoutMs>>
  /\ UNCHANGED limHist

\* run(task), resumption after `await this.waitForSlot()` of the waiter
\* whose promise was resolved first
LimResume ==
  /\ LimFrame
  /\ resolved # <<>>
  /\ LET c == Head(resolved) IN
       /\ resolved' = Tail(resolved)
       /\ currentCount' = AcquireCount(currentCount)
       /\ lpc' = [lpc EXCEPT ![c] = "running"]
       /\ startLog' = Append(startLog, c)
  /\ UNCHANGED <<maxConcurrent, queueTimeoutMs, queue, enqLog, waitingAt>>

\* the setTimeout callback of waitForSlot(): a timer callback runs only when
\* no promise continuation is pending; the timer of a released entry is cleared
LimQueueTimeout(c) ==
  /\ LimFrame
  /\ queueTimeoutMs > 0
  /\ resolved = <<>>
  /\ c \in Range(queue)
  /\ queue' = RemoveEntry(queue, c)
  /\ lpc' = [lpc EXCEPT ![c] = "rejected"]
  /\ UNCHANGED <<maxConcurrent, queueTimeoutMs, currentCount, resolved>>
  /\ UNCHANGED limHist

\* clearQueue(): every waiting entry is rejected
LimClearQueue ==
  /\ LimFrame
  /\ queue # <<>>
  /\ queue' = <<>>
  /\ lpc' = [c \in DOMAIN lpc |-> IF c \in Range(queue) THEN "rejected" ELSE lpc[c]]
  /\ UNCHANGED <<maxConcurrent, queueTimeoutMs, currentCount, resolved>>
  /\ UNCHANGED limHist

(***************************************************************************)
(* TaskRegistry, as operators on its fields.  `ts` is the tasks map (the   *)
(* TaskState records in insertion order), `ac` the abortControllers map.   *)
(* A TaskState is modelled by the fields that are read somewhere: id,      *)
(* createdAt, status, input and result (updatedAt and currentStep are      *)
(* only ever written).                                                     *)
(***************************************************************************)
TaskIds == 1..MaxCreates
Capacities == {1, 2}
Statuses == {"pending", "running", "completed", "failed", "cancelled"}
ResultKinds == {"ok", "partial", "escalation", "error"}
NoResult == [kind |-> "undefined"]   \* an absent TaskState.result

HasTask(ts, id) == \E i \in DOMAIN ts : ts[i].id = id
TaskAt(ts, id) == CHOOSE i \in DOMAIN ts : ts[i].id = id
GetTask(ts, id) == ts[TaskAt(ts, id)]

\* Map.prototype.delete
MapDelete(ts, id) == SelectSeq(ts, LAMBDA t : t.id # id)

\* getOldestTask(): the first task, in iteration order, whose createdAt is
\* strictly smaller than that of every task before it and not larger than
\* that of any task after it
\* (a faulty variant, for comparison: the task inserted last is taken)
GetNewestTask(ts) == ts[Len(ts)]
GetOldestTask(ts) ==
  ts[CHOOSE i \in DOMAIN ts :
        /\ \A j \in DOMAIN ts : j < i => ts[j].createdAt > ts[i].createdAt
        /\ \A j \in DOMAIN ts : j > i => ts[j].createdAt >= ts[i].createdAt]

\* create(input): the tasks left after the eviction made at capacity
EvictedTasks(ts, max) ==
  IF Len(ts) >= max /\ ts # <<>> THEN MapDelete(ts, GetOldestTask(ts).id) ELSE ts

EvictedControllers(ac, ts, max) ==
  IF Len(ts) >= max /\ ts # <<>>
    THEN [ac EXCEPT ![GetOldestTask(ts).id] = "absent"]
    ELSE ac

\* create(input): the new pending task
NewTask(id, taskInput, clock) ==
  [id |-> id, createdAt |-> clock, status |-> "pending",
   input |-> taskInput, result |-> NoResult]

CreateTasks(ts, max, id, taskInput, clock) ==
  Append(EvictedTasks(ts, max), NewTask(id, taskInput, clock))

CreateControllers(ac, ts, max, id) ==
  [EvictedControllers(ac, ts, max) EXCEPT ![id] = "live"]

\* updateStatus(id, status): the value returned and the tasks map afterwards
UpdateStatusReturns(ts, id) == HasTask(ts, id)

UpdateStatusTasks(ts, id, status) ==
  IF ~HasTask(ts, id) THEN ts
  ELSE [ts EXCEPT ![TaskAt(ts, id)] = [@ EXCEPT !.status = status]]

\* setResult: `isTerminal`
\* (a faulty variant, for comparison: cancelled is not counted as terminal)
IsTerminalButCancelled(status) == status \in {"completed", "failed"}
IsTerminal(status) == status \in {"completed", "failed", "cancelled"}

\* setResult(id, result): the SetResultOutcome returned
SetResultOutcome(ts, id) ==
  IF ~HasTask(ts, id) THEN [success |-> FALSE, reason |-> "not_found"]
  ELSE IF IsTerminal(GetTask(ts, id).status)
         THEN IF GetTask(ts, id).result # NoResult
                THEN [success |-> TRUE, wasIdempotent |-> TRUE]
                ELSE [success |-> FALSE, reason |-> "already_terminal"]
         ELSE [success |-> TRUE, wasIdempotent |-> FALSE]

\* setResult(id, result): the tasks map afterwards
\* (a faulty variant, for comparison: a terminal task is written again)
SetResultOverwrites(ts, id, result) ==
  IF ~HasTask(ts, id) THEN ts
  ELSE [ts EXCEPT ![TaskAt(ts, id)] =
          [@ EXCEPT !.result = result,
                    !.status = IF result.kind = "error" THEN "failed" ELSE "completed"]]
SetResultTasks(ts, id, result) ==
  IF ~HasTask(ts, id) \/ IsTerminal(GetTask(ts, id).status) THEN ts
  ELSE [ts EXCEPT ![TaskAt(ts, id)] =
          [@ EXCEPT !.result = result,
                    !.status = IF result.kind = "error" THEN "failed" ELSE "completed"]]

\* cancel(id): the value returned, the tasks map and the controllers afterwards
CancelReturns(ts, id) ==
  HasTask(ts, id) /\ GetTask(ts, id).status \in {"pending", "running"}

\* (a faulty variant, for comparison: the status is not looked at)
CancelTasksAnyStatus(ts, id) ==
  IF HasTask(ts, id)
    THEN [ts EXCEPT ![TaskAt(ts, id)] = [@ EXCEPT !.status = "cancelled"]]
    ELSE ts
CancelTasks(ts, id) ==
  IF CancelReturns(ts, id)
    THEN [ts EXCEPT ![TaskAt(ts, id)] = [@ EXCEPT !.status = "cancelled"]]
    ELSE ts

CancelControllers(ac, ts, id) ==
  IF CancelReturns(ts, id) /\ ac[id] = "live"
    THEN [ac EXCEPT ![id] = "aborted"]
    ELSE ac

(***************************************************************************)
(* The registry's operations as actions (a stand-alone TaskRegistry).      *)
(* The clock is read by create() alone; `tick` says whether time has       *)
(* passed since the previous create().                                     *)
(***************************************************************************)
RegResults == {[kind |-> k] : k \in {"ok", "error"}}

RegCreate(tick) ==
  /\ RegFrame
  /\ nextTaskId < MaxCreates
  /\ LET id == nextTaskId + 1 IN
       /\ nextTaskId' = id
       /\ now' = now + tick
       /\ tasks' = CreateTasks(tasks, maxTasks, id, "query", now')
       /\ abortControllers' = CreateControllers(abortControllers, tasks, maxTasks, id)
  /\ UNCHANGED maxTasks

RegUpdateStatus(id, status) ==
  /\ RegFrame
  /\ tasks' = UpdateStatusTasks(tasks, id, status)
  /\ UNCHANGED <<maxTasks, abortControllers, nextTaskId, now>>

RegSetResult(id, result) ==
  /\ RegFrame
  /\ tasks' = SetResultTasks(tasks, id, result)
  /\ UNCHANGED <<maxTasks, abortControllers, nextTaskId, now>>

RegCancel(id) ==
  /\ RegFrame
  /\ tasks' = CancelTasks(tasks, id)
  /\ abortControllers' = CancelControllers(abortControllers, tasks, id)
  /\ UNCHANGED <<maxTasks, nextTaskId, now>>

\* delete(id)
RegDelete(id) ==
  /\ RegFrame
  /\ tasks' = MapDelete(tasks, id)
  /\ abortControllers' = [abortControllers EXCEPT ![id] = "absent"]
  /\ UNCHANGED <<maxTasks, nextTaskId, now>>

(***************************************************************************)
(* Residences, privileges, capabilities and skills (skills/validator.ts,   *)
(* skills/types.ts).  A residence path is the sequence of its segments     *)
(* (the path split at "/" after backslashes were replaced by "/").         *)
(***************************************************************************)
Privileges == {"user", "specialist", "root"}

Capabilities ==
  {"read_repo", "write_repo", "execute_code", "network_access",
   "memory_write", "escalate", "invoke_subagent"}

\* PRIVILEGE_CAPABILITIES
PRIVILEGE_CAPABILITIES ==
  [root |-> Capabilities,
   specialist |-> {"read_repo", "write_repo", "execute_code", "memory_write",
                   "invoke_subagent"},
   user |-> {"read_repo"}]

\* hasCapability(privilege, capability)
\* (a faulty variant, for comparison: the user row of the table also lists
\* escalate)
HasCapabilityUserEscalates(privilege, capability) ==
  capability \in [PRIVILEGE_CAPABILITIES EXCEPT !.user = @ \cup {"escalate"}][privilege]
HasCapability(privilege, capability) == capability \in PRIVILEGE_CAPABILITIES[privilege]

\* the segments that begin with a given word without being equal to it
LongerSegments ==
  [root |-> {"rootless"}, specialist |-> {"specialists"}]

\* String.prototype.includes("/" + word): some segment after the first one
\* begins with the word
IncludesSlash(path, word) ==
  \E i \in DOMAIN path : i >= 2 /\ (path[i] = word \/ path[i] \in LongerSegments[word])

\* normalized === "Liku" || normalized.endsWith("/Liku")
EndsWithLiku(path) == path # <<>> /\ path[Len(path)] = "Liku"

\* getResidencePrivilege(residencePath)
GetResidencePrivilege(path) ==
  IF IncludesSlash(path, "root") THEN "root"
  ELSE IF EndsWithLiku(path) THEN "root"
  ELSE IF IncludesSlash(path, "specialist") THEN "specialist"
  ELSE "user"

\* privilegeOrder.indexOf(p)
PrivilegeLevel(p) == CASE p = "user" -> 0 [] p = "specialist" -> 1 [] p = "root" -> 2

\* a LikuSkill; requires = "none" stands for an absent `requires`
Skill(id, requiredPrivilege, requires, escalateIfMissing) ==
  [id |-> id, requiredPrivilege |-> requiredPrivilege, requires |-> requires,
   escalateIfMissing |-> escalateIfMissing]

\* validateSkillExecution(skill, currentPrivilege)
\* (a faulty variant, for comparison: the capability is checked first)
ValidateSkillCapabilityFirst(skill, currentPrivilege) ==
  IF skill.requires # "none" /\ ~HasCapability(currentPrivilege, skill.requires)
    THEN [allowed |-> FALSE, reason |-> "missing_capability",
          capability |-> skill.requires, escalate |-> skill.escalateIfMissing]
  ELSE IF PrivilegeLevel(currentPrivilege) < PrivilegeLevel(skill.requiredPrivilege)
    THEN [allowed |-> FALSE, reason |-> "insufficient_privilege",
          capability |-> "none", escalate |-> FALSE]
  ELSE [allowed |-> TRUE, reason |-> "none", capability |-> "none", escalate |-> FALSE]
ValidateSkillExecution(skill, currentPrivilege) ==
  IF PrivilegeLevel(currentPrivilege) < PrivilegeLevel(skill.requiredPrivilege)
    THEN [allowed |-> FALSE, reason |-> "insufficient_privilege",
          capability |-> "none", escalate |-> FALSE]
  ELSE IF skill.requires # "none" /\ ~HasCapability(currentPrivilege, skill.requires)
    THEN [allowed |-> FALSE, reason |-> "missing_capability",
          capability |-> skill.requires, escalate |-> skill.escalateIfMissing]
  ELSE [allowed |-> TRUE, reason |-> "none", capability |-> "none", escalate |-> FALSE]

\* validateSkillsIndex(skillsIndex, currentPrivilege): report.details
ReportDetails(skills, privilege) ==
  [i \in DOMAIN skills |->
     [skillId |-> skills[i].id, result |-> ValidateSkillExecution(skills[i], privilege)]]

NeedsEscalation(d) ==
  ~d.result.allowed /\ d.result.reason = "missing_capability" /\ d.result.escalate

\* validateSkillsIndex: report.escalationRequired and report.blocked
EscalationRequired(skills, privilege) ==
  Cardinality({i \in DOMAIN skills : NeedsEscalation(ReportDetails(skills, privilege)[i])})

Blocked(skills, privilege) ==
  Cardinality({i \in DOMAIN skills :
                 LET d == ReportDetails(skills, privilege)[i] IN
                   ~d.result.allowed /\ ~NeedsEscalation(d)})

\* Array.prototype.find over report.details, given which details satisfy
\* the predicate: the first index that does, 0 if none
FindDetail(hits) ==
  IF \E i \in DOMAIN hits : hits[i]
    THEN CHOOSE i \in DOMAIN hits : hits[i] /\ \A j \in DOMAIN hits : j < i => ~hits[j]
    ELSE 0

NoEscalation == [missingSkill |-> "undefined", capability |-> "undefined"]

\* Orchestrator.checkForEscalation(bundle, step): the EscalationInfo, or
\* NoEscalation for `undefined`
\* (a faulty variant, for comparison: the capability is left out of the info)
CheckForEscalationNoCapability(skills, agentResidence) ==
  LET privilege == GetResidencePrivilege(agentResidence)
      details == ReportDetails(skills, privilege)
      found == FindDetail([i \in DOMAIN details |-> ~details[i].result.allowed])
  IN IF found # 0 /\ (NeedsEscalation(details[found])
                        \/ details[found].result.reason = "insufficient_privilege")
       THEN [missingSkill |-> details[found].skillId, capability |-> "undefined"]
       ELSE NoEscalation
CheckForEscalation(skills, agentResidence) ==
  LET privilege == GetResidencePrivilege(agentResidence)
      details == ReportDetails(skills, privilege)
      escalationSkill ==
        FindDetail([i \in DOMAIN details |-> NeedsEscalation(details[i])])
      blk == FindDetail([i \in DOMAIN details |->
                           /\ ~details[i].result.allowed
                           /\ details[i].result.reason = "insufficient_privilege"])
  IN IF EscalationRequired(skills, privilege) > 0 /\ escalationSkill # 0
       THEN [missingSkill |-> details[escalationSkill].skillId,
             capability |-> details[escalationSkill].result.capability]
     ELSE IF Blocked(skills, privilege) > 0 /\ blk # 0
       THEN [missingSkill |-> details[blk].skillId, capability |-> "undefined"]
     ELSE NoEscalation

(***************************************************************************)
(* Plans and the plan validator (orchestrator/planValidator.ts).  A        *)
(* PlanStep is modelled by its id, agentResidence, dependsOn (an array of  *)
(* step ids) and parallel flag; a PlannerOutput by its steps and by        *)
(* whether it carries escalationRequests.  hasSteps = FALSE stands for a   *)
(* caller-supplied object whose `steps` is not an array.                   *)
(***************************************************************************)
PlanStep(id, agentResidence, dependsOn, parallel) ==
  [id |-> id, agentResidence |-> agentResidence, dependsOn |-> dependsOn,
   parallel |-> parallel]

PlannerOutput(planSteps, escalationRequests) ==
  [hasSteps |-> TRUE, steps |-> planSteps, escalationRequests |-> escalationRequests]

\* the step ids in the order of String comparison
IdOrder == <<"a", "b", "c", "d", "e", "f", "ts-execution", "zzz">>

IdRank(id) == IndexOf(IdOrder, id)

\* Array.prototype.sort() on an array of step ids
RECURSIVE SortIds(_)
SortIds(ids) ==
  IF ids = <<>> THEN <<>>
  ELSE LET m == CHOOSE i \in DOMAIN ids :
                  /\ \A j \in DOMAIN ids : IdRank(ids[i]) <= IdRank(ids[j])
                  /\ \A j \in DOMAIN ids : j < i => IdRank(ids[j]) > IdRank(ids[i])
       IN <<ids[m]>> \o SortIds([k \in 1..(Len(ids) - 1) |->
                                    IF k < m THEN ids[k] ELSE ids[k + 1]])

\* checkParallelism sorts every step's dependsOn in place: the steps as the
\* later checks of validatePlan see them
SortedDeps(planSteps) ==
  [i \in DOMAIN planSteps |->
     [planSteps[i] EXCEPT !.dependsOn = SortIds(planSteps[i].dependsOn)]]

\* DEFAULT_PLAN_CONSTRAINTS
DEFAULT_PLAN_CONSTRAINTS ==
  [maxSteps |-> 20, maxParallelism |-> 5,
   allowedCapabilities |-> PRIVILEGE_CAPABILITIES["specialist"],
   allowEscalationRequests |-> TRUE]

\* constraintsFromPrivilege(privilege)
ConstraintsFromPrivilege(privilege) ==
  [maxSteps |-> IF privilege = "root" THEN 50
                ELSE IF privilege = "specialist" THEN 20 ELSE 5,
   maxParallelism |-> IF privilege = "root" THEN 10 ELSE 5,
   allowedCapabilities |-> PRIVILEGE_CAPABILITIES[privilege],
   allowEscalationRequests |-> privilege # "user"]

Valid == [valid |-> TRUE, reason |-> "none", details |-> <<>>]
Invalid(reason, details) == [valid |-> FALSE, reason |-> reason, details |-> details]

\* checkParallelism(steps, maxParallelism): the steps are grouped by the
\* joined, sorted dependsOn; a group fails when it has more than
\* maxParallelism steps marked parallel
\* (a faulty variant, for comparison: a group that reaches the limit fails)
CheckParallelismAtLimit(planSteps, maxParallelism) ==
  LET sorted == SortedDeps(planSteps)
      Group(i) == {j \in DOMAIN sorted :
                     sorted[j].dependsOn = sorted[i].dependsOn /\ sorted[j].parallel}
  IN IF \E i \in DOMAIN sorted : Cardinality(Group(i)) >= maxParallelism
       THEN Invalid("too_much_parallelism", <<>>)
       ELSE Valid
CheckParallelism(planSteps, maxParallelism) ==
  LET sorted == SortedDeps(planSteps)
      Group(i) == {j \in DOMAIN sorted :
                     sorted[j].dependsOn = sorted[i].dependsOn /\ sorted[j].parallel}
  IN IF \E i \in DOMAIN sorted : Cardinality(Group(i)) > maxParallelism
       THEN Invalid("too_much_parallelism", <<>>)
       ELSE Valid

\* new Set(steps.map(s => s.id))
StepIds(planSteps) == {planSteps[i].id : i \in DOMAIN planSteps}

\* new Map(steps.map(s => [s.id, s])).get(id): the last step with that id
StepMapGet(planSteps, id) ==
  planSteps[CHOOSE i \in DOMAIN planSteps :
              planSteps[i].id = id /\ \A j \in DOMAIN planSteps : j > i => planSteps[j].id # id]

\* checkCircularDependencies: dfs(stepId, path).  `visiting` is the set of
\* the ids on `path`.  The result is the cycle found (<<>> for null) and
\* the `visited` set afterwards.
RECURSIVE Dfs(_, _, _, _)
RECURSIVE DfsDeps(_, _, _, _, _)
Dfs(planSteps, stepId, path, visited) ==
  IF stepId \in Range(path) THEN [cycle |-> Append(path, stepId), visited |-> visited]
  ELSE IF stepId \in visited THEN [cycle |-> <<>>, visited |-> visited]
  ELSE LET r == DfsDeps(planSteps, StepMapGet(planSteps, stepId).dependsOn, 1,
                        Append(path, stepId), visited)
       IN IF r.cycle # <<>> THEN r
          ELSE [cycle |-> <<>>, visited |-> r.visited \cup {stepId}]

\* the loop `for (const dep of step.dependsOn)` of dfs, from position k on
DfsDeps(planSteps, deps, k, path, visited) ==
  IF k > Len(deps) THEN [cycle |-> <<>>, visited |-> visited]
  ELSE IF deps[k] \notin StepIds(planSteps)
         THEN DfsDeps(planSteps, deps, k + 1, path, visited)
  ELSE LET r == Dfs(planSteps, deps[k], path, visited)
       IN IF r.cycle # <<>> THEN r
          ELSE DfsDeps(planSteps, deps, k + 1, path, r.visited)

\* the loop `for (const step of steps)` of checkCircularDependencies
RECURSIVE DfsFrom(_, _, _)
DfsFrom(planSteps, k, visited) ==
  IF k > Len(planSteps) THEN <<>>
  ELSE LET r == Dfs(planSteps, planSteps[k].id, <<>>, visited)
       IN IF r.cycle # <<>> THEN r.cycle ELSE DfsFrom(planSteps, k + 1, r.visited)

CheckCircularDependencies(planSteps) ==
  LET cycle == DfsFrom(planSteps, 1, {})
  IN IF cycle # <<>> THEN Invalid("circular_dependency", cycle) ELSE Valid

\* checkMissingDependencies(steps)
CheckMissingDependencies(planSteps) ==
  IF \E i \in DOMAIN planSteps : \E k \in DOMAIN planSteps[i].dependsOn :
        planSteps[i].dependsOn[k] \notin StepIds(planSteps)
    THEN Invalid("missing_dependency", <<>>)
    ELSE Valid

\* step.agentResidence.startsWith("Liku/")
StartsWithLikuSlash(path) == Len(path) >= 2 /\ path[1] = "Liku"

\* validateStep(step, cfg)
ValidateStep(step, cfg) ==
  IF ~StartsWithLikuSlash(step.agentResidence)
    THEN Invalid("invalid_residence", <<step.id>>)
  ELSE IF \E cap \in PRIVILEGE_CAPABILITIES[GetResidencePrivilege(step.agentResidence)] :
             cap \notin cfg.allowedCapabilities /\ cap \in {"escalate", "network_access"}
    THEN Invalid("unauthorized_capability", <<step.id>>)
  ELSE Valid

\* validatePlan(plan, constraints): the first failing check decides
\* (a faulty variant, for comparison: the dependency checks are made before
\* the step count and the parallelism are looked at)
ValidatePlanDepsFirst(p, cfg) ==
  IF ~CheckCircularDependencies(p.steps).valid THEN CheckCircularDependencies(p.steps)
  ELSE IF ~CheckMissingDependencies(p.steps).valid THEN CheckMissingDependencies(p.steps)
  ELSE IF Len(p.steps) > cfg.maxSteps THEN Invalid("too_many_steps", <<>>)
  ELSE IF ~CheckParallelism(p.steps, cfg.maxParallelism).valid
    THEN CheckParallelism(p.steps, cfg.maxParallelism)
  ELSE IF \E i \in DOMAIN p.steps : ~ValidateStep(p.steps[i], cfg).valid
    THEN ValidateStep(p.steps[CHOOSE i \in DOMAIN p.steps :
                         /\ ~ValidateStep(p.steps[i], cfg).valid
                         /\ \A j \in DOMAIN p.steps :
                               j < i => ValidateStep(p.steps[j], cfg).valid], cfg)
  ELSE IF p.escalationRequests /\ ~cfg.allowEscalationRequests
    THEN Invalid("unauthorized_escalation", <<>>)
  ELSE Valid
ValidatePlan(p, cfg) ==
  IF Len(p.steps) > cfg.maxSteps THEN Invalid("too_many_steps", <<>>)
  ELSE IF ~CheckParallelism(p.steps, cfg.maxParallelism).valid
    THEN CheckParallelism(p.steps, cfg.maxParallelism)
  ELSE IF ~CheckCircularDependencies(SortedDeps(p.steps)).valid
    THEN CheckCircularDependencies(SortedDeps(p.steps))
  ELSE IF ~CheckMissingDependencies(SortedDeps(p.steps)).valid
    THEN CheckMissingDependencies(SortedDeps(p.steps))
  ELSE IF \E i \in DOMAIN p.steps : ~ValidateStep(p.steps[i], cfg).valid
    THEN ValidateStep(p.steps[CHOOSE i \in DOMAIN p.steps :
                         /\ ~ValidateStep(p.steps[i], cfg).valid
                         /\ \A j \in DOMAIN p.steps :
                               j < i => ValidateStep(p.steps[j], cfg).valid], cfg)
  ELSE IF p.escalationRequests /\ ~cfg.allowEscalationRequests
    THEN Invalid("unauthorized_escalation", <<>>)
  ELSE Valid

\* the plan object after validatePlan(plan, constraints) has returned:
\* unless the step count stopped it, checkParallelism has sorted every
\* step's dependsOn array in place (Array.prototype.sort)
\* (a faulty variant, for comparison: the sort is made on a copy)
PlanAfterValidate(p, cfg) ==
  IF Len(p.steps) > cfg.maxSteps THEN p ELSE [p EXCEPT !.steps = SortedDeps(@)]

\* Orchestrator.parsePlannerOutput(output): the output of runStep is never
\* an object with a goalSummary, so the default single-step plan is built
DefaultPlan ==
  PlannerOutput(<<PlanStep("ts-execution", <<"Liku", "specialist", "ts">>, <<>>, FALSE)>>,
                FALSE)

ParsePlannerOutput(output) ==
  IF output.defined /\ output.hasGoalSummary THEN output.plan ELSE DefaultPlan

(***************************************************************************)
(* The Orchestrator (orchestrator/orchestrator.ts).  One run() call is     *)
(* modelled.  Its handlers are written as functions on a record `r` of     *)
(* the fields they change:                                                 *)
(*   pc, steps, plan, result   run()'s position, `steps`, `plan`, result   *)
(*   stage                     the pipeline stage inside runStepWithEvents *)
(*   sched                     executeStepsWithEvents: completed, results, *)
(*                             the batch being executed                    *)
(*   phase, sres               per plan step: where it is and its status   *)
(*   esc                       the escalation of the results               *)
(*   count, queue, resolved    the limiter's fields                        *)
(*   evq                       the event handler calls queued by emitEvent *)
(*   tasks                     the registry's tasks map                    *)
(***************************************************************************)
Cur ==
  [pc |-> runPc, steps |-> steps, plan |-> plan, result |-> runResult,
   stage |-> stage, sched |-> sched, phase |-> phase, sres |-> sres, esc |-> esc,
   count |-> currentCount, queue |-> queue, resolved |-> resolved,
   evq |-> eventQueue, tasks |-> tasks]

Install(r) ==
  /\ runPc' = r.pc
  /\ steps' = r.steps
  /\ plan' = r.plan
  /\ runResult' = r.result
  /\ stage' = r.stage
  /\ sched' = r.sched
  /\ phase' = r.phase
  /\ sres' = r.sres
  /\ esc' = r.esc
  /\ currentCount' = r.count
  /\ queue' = r.queue
  /\ resolved' = r.resolved
  /\ eventQueue' = r.evq
  /\ tasks' = r.tasks

EventTypes ==
  {"run_started", "step_started", "step_completed", "escalation", "elicitation",
   "run_completed"}

\* emitEvent: typeToOption
TypeToOption(type) ==
  CASE type = "step_started" -> "emitStepStarted"
    [] type = "step_completed" -> "emitStepCompleted"
    [] type = "escalation" -> "emitEscalation"
    [] type = "elicitation" -> "emitElicitation"
    [] OTHER -> "null"

\* emitEvent(options, event): the handler call is queued as a microtask,
\* unless there is no handler or the event's type is switched off
EmitEvent(options, evq, type) ==
  IF ~options.onEvent THEN evq
  ELSE IF TypeToOption(type) # "null" /\ ~options[TypeToOption(type)] THEN evq
  ELSE Append(evq, type)

Emit(r, type) == [r EXCEPT !.evq = EmitEvent(input.events, @, type)]

StepResult(stepId, status, escalation) ==
  [stepId |-> stepId, status |-> status, escalation |-> escalation]

\* the `output` of the StepResult that runStep returns: undefined unless the
\* status is success, else { bundleOnly: true, bundle } or
\* { llmResponse, bundle, usage }; never an object with goalSummary or steps
RunStepOutput(status) ==
  [defined |-> status = "success",
   bundleOnly |-> ~(input.executeWithLlm /\ input.llmConfigured),
   hasGoalSummary |-> FALSE,
   stepsIsArray |-> FALSE]

\* plannerContract.parse(output): valid, or the `expected` of the violation
PlannerContractParse(output) ==
  IF ~output.defined THEN [valid |-> FALSE, expected |-> "PlannerOutput object"]
  ELSE IF output.bundleOnly THEN [valid |-> TRUE, expected |-> "none"]
  ELSE IF ~output.hasGoalSummary THEN [valid |-> FALSE, expected |-> "goalSummary string"]
  ELSE IF ~output.stepsIsArray THEN [valid |-> FALSE, expected |-> "steps array"]
  ELSE [valid |-> TRUE, expected |-> "none"]

\* runStep, after `await this.engine.invokeAgentSafe(...)`: the status of
\* the result, or "llm" when this.llmClient.generate is awaited next
\* the `escalation` of the result of runStep: that of the bundle resolver's
\* escalation (no capability), or what checkForEscalation returned
EscalationOf(outcome, agentResidence) ==
  IF outcome.kind \in {"throws", "error"} THEN NoEscalation
  ELSE IF outcome.kind = "escalation"
    THEN [missingSkill |-> outcome.missingSkill, capability |-> "undefined"]
  ELSE CheckForEscalation(outcome.skills, agentResidence)

\* (a faulty variant, for comparison: the LLM is called before the skills
\* of the bundle are looked at)
AfterBundleLlmFirst(outcome, agentResidence) ==
  IF outcome.kind = "throws" THEN "error"
  ELSE IF outcome.kind = "error" THEN "error"
  ELSE IF outcome.kind = "escalation" THEN "escalated"
  ELSE IF input.executeWithLlm /\ input.llmConfigured THEN "llm"
  ELSE IF CheckForEscalation(outcome.skills, agentResidence) # NoEscalation THEN "escalated"
  ELSE "success"
AfterBundle(outcome, agentResidence) ==
  IF outcome.kind = "throws" THEN "error"
  ELSE IF outcome.kind = "error" THEN "error"
  ELSE IF outcome.kind = "escalation" THEN "escalated"
  ELSE IF CheckForEscalation(outcome.skills, agentResidence) # NoEscalation THEN "escalated"
  ELSE IF input.executeWithLlm /\ input.llmConfigured THEN "llm"
  ELSE "success"

\* runStep, after `await this.llmClient.generate(llmInput)`
AfterLlm(outcome) == IF outcome = "throws" THEN "error" ELSE "success"

\* the agentResidence of the pipeline stages of run()
StageResidence(name) ==
  CASE name = "supervisor" -> input.startResidence
    [] name = "parser" -> <<"Liku", "specialist", "parser">>
    [] name = "planner" -> <<"Liku", "specialist", "planner">>
    [] name = "synthesizer" -> <<"Liku", "specialist", "synthesizer">>

NoStage == [phase |-> "none", status |-> "none"]

\* runStepWithEvents + runStep of a pipeline stage, up to the first await:
\* step_started is emitted; past the total timeout the step fails at once
BeginStage(r, name) ==
  [Emit(r, "step_started") EXCEPT
     !.pc = name,
     !.stage = IF expired THEN [phase |-> "settled", status |-> "error"]
               ELSE [phase |-> "bundle", status |-> "none"]]

\* runStepWithEvents after `await this.runStep(...)`: step_completed, and
\* escalation for an escalated step
StepEvents(r, status) ==
  IF status = "escalated"
    THEN Emit(Emit(r, "step_completed"), "escalation")
    ELSE Emit(r, "step_completed")

\* finishRun(taskId, eventOptions, startTime, steps, result)
\* (a faulty variant, for comparison: no event when the registry refuses the result)
FinishRunSilentWhenTerminal(r, kind) ==
  IF SetResultOutcome(r.tasks, taskId).success /\ ~SetResultOutcome(r.tasks, taskId).wasIdempotent
    THEN Emit([r EXCEPT !.tasks = SetResultTasks(@, taskId, [kind |-> kind]),
                        !.pc = "returned", !.result = kind], "run_completed")
    ELSE [r EXCEPT !.pc = "returned", !.result = kind]
FinishRun(r, kind) ==
  Emit([r EXCEPT !.tasks = SetResultTasks(@, taskId, [kind |-> kind]),
                 !.pc = "returned", !.result = kind],
       "run_completed")

\* finishRun(..., this.escalationResult(summary, steps, escalation))
FinishEscalation(r, escalation) ==
  FinishRun([r EXCEPT !.esc.run = escalation], "escalation")

\* ---- executeStepsWithEvents ----
Indices(n) == [i \in 1..n |-> i]

\* readySteps(): the steps, in plan order, that are not completed and whose
\* dependsOn are all completed (as indices into the plan)
\* (a faulty variant, for comparison: dependsOn is not looked at)
ReadyIgnoresDeps(planSteps, completed) ==
  SelectSeq(Indices(Len(planSteps)), LAMBDA i : planSteps[i].id \notin completed)
ReadySteps(planSteps, completed) ==
  SelectSeq(Indices(Len(planSteps)),
            LAMBDA i : /\ planSteps[i].id \notin completed
                       /\ \A k \in DOMAIN planSteps[i].dependsOn :
                             planSteps[i].dependsOn[k] \in completed)

\* runStepWithEvents + runStep of plan step i, up to the first await
\* (a faulty variant, for comparison: runStep without its total-timeout test)
BeginStepNoTimeout(r, i) == [Emit(r, "step_started") EXCEPT !.phase[i] = "bundle"]
BeginStep(r, i) ==
  IF expired
    THEN [Emit(r, "step_started") EXCEPT !.phase[i] = "settled", !.sres[i] = "error"]
    ELSE [Emit(r, "step_started") EXCEPT !.phase[i] = "bundle"]

\* this.limiter.run(() => this.runStepWithEvents(step, ...)), up to the
\* first await: the step waits in the queue or takes a slot and begins
LimiterRun(r, i) ==
  IF AtCapacity(r.count, maxConcurrent)
    THEN [r EXCEPT !.queue = Append(@, i), !.phase[i] = "queued"]
    ELSE BeginStep([r EXCEPT !.count = AcquireCount(@)], i)

\* parallelSteps.map((step) => this.limiter.run(...))
RECURSIVE SubmitAll(_, _)
SubmitAll(r, idxs) ==
  IF idxs = <<>> THEN r ELSE SubmitAll(LimiterRun(r, Head(idxs)), Tail(idxs))

\* one pass of `while (completed.size < steps.length)`, up to the first
\* await, or to the return of the results
\* (a faulty variant, for comparison: the sequential steps of the batch are
\* handed to the limiter together, as the parallel ones are)
SchedLoopAllAtOnce(r) ==
  LET batch == ReadySteps(r.plan.steps, r.sched.completed)
      sequentialSteps == SelectSeq(batch, LAMBDA i : ~r.plan.steps[i].parallel)
      parallelSteps == SelectSeq(batch, LAMBDA i : r.plan.steps[i].parallel)
      r1 == [r EXCEPT !.sched.seqLeft = sequentialSteps,
                      !.sched.parBatch = parallelSteps]
  IN IF Cardinality(r.sched.completed) < Len(r.plan.steps) /\ batch # <<>>
       THEN IF sequentialSteps # <<>>
              THEN SubmitAll([r1 EXCEPT !.sched.pc = "seq"], sequentialSteps)
              ELSE SubmitAll([r1 EXCEPT !.sched.pc = "par"], parallelSteps)
       ELSE [r EXCEPT !.sched.pc = "returned"]
SchedLoop(r) ==
  LET batch == ReadySteps(r.plan.steps, r.sched.completed)
      sequentialSteps == SelectSeq(batch, LAMBDA i : ~r.plan.steps[i].parallel)
      parallelSteps == SelectSeq(batch, LAMBDA i : r.plan.steps[i].parallel)
      r1 == [r EXCEPT !.sched.seqLeft = sequentialSteps,
                      !.sched.parBatch = parallelSteps]
  IN IF Cardinality(r.sched.completed) < Len(r.plan.steps) /\ batch # <<>>
       THEN IF sequentialSteps # <<>>
              THEN LimiterRun([r1 EXCEPT !.sched.pc = "seq"], Head(sequentialSteps))
              ELSE SubmitAll([r1 EXCEPT !.sched.pc = "par"], parallelSteps)
       ELSE [r EXCEPT !.sched.pc = "returned"]

\* the call of executeStepsWithEvents(plan.steps, ...) by run()
\* (a faulty variant, for comparison: run() without its catch block, the
\* throw of a plan whose steps is not an array leaves run() as a rejection)
ExecuteStepsUncaught(r) ==
  IF ~r.plan.hasSteps THEN [r EXCEPT !.pc = "rejected"]
  ELSE SchedLoop([r EXCEPT
         !.pc = "executing",
         !.phase = [i \in DOMAIN r.plan.steps |-> "idle"],
         !.sres = [i \in DOMAIN r.plan.steps |-> "none"],
         !.esc.step = [i \in DOMAIN r.plan.steps |-> NoEscalation],
         !.sched = [pc |-> "loop", completed |-> {}, results |-> <<>>,
                    seqLeft |-> <<>>, parBatch |-> <<>>]])
\* a plan whose steps is not an array makes executeStepsWithEvents throw,
\* and run()'s catch block finishes the run with an error result
ExecuteStepsWithEvents(r) ==
  IF ~r.plan.hasSteps THEN FinishRun(r, "error")
  ELSE SchedLoop([r EXCEPT
         !.pc = "executing",
         !.phase = [i \in DOMAIN r.plan.steps |-> "idle"],
         !.sres = [i \in DOMAIN r.plan.steps |-> "none"],
         !.esc.step = [i \in DOMAIN r.plan.steps |-> NoEscalation],
         !.sched = [pc |-> "loop", completed |-> {}, results |-> <<>>,
                    seqLeft |-> <<>>, parBatch |-> <<>>]])

\* (a faulty variant, for comparison: the results of a sub-batch are not
\* tested for errors, the loop goes on whatever config.abortOnError says)
SchedContinueNoAbort(r) ==
  IF r.sched.pc = "seq"
    THEN LET i == Head(r.sched.seqLeft)
             rest == Tail(r.sched.seqLeft)
             r1 == [r EXCEPT
                      !.sched.results =
                         Append(@, StepResult(r.plan.steps[i].id, r.sres[i], r.esc.step[i])),
                      !.sched.completed = @ \cup {r.plan.steps[i].id},
                      !.sched.seqLeft = rest]
         IN IF rest # <<>> THEN LimiterRun(r1, Head(rest))
            ELSE IF r1.sched.parBatch # <<>>
              THEN SubmitAll([r1 EXCEPT !.sched.pc = "par"], r1.sched.parBatch)
            ELSE SchedLoop(r1)
    ELSE LET par == r.sched.parBatch
             r1 == [r EXCEPT
                      !.sched.results =
                         @ \o [k \in DOMAIN par |->
                                 StepResult(r.plan.steps[par[k]].id, r.sres[par[k]],
                                            r.esc.step[par[k]])],
                      !.sched.completed = @ \cup {r.plan.steps[par[k]].id : k \in DOMAIN par},
                      !.sched.parBatch = <<>>]
         IN SchedLoop(r1)

\* executeStepsWithEvents after `await this.limiter.run(...)` of a
\* sequential step, or after `await Promise.all(...)` of the parallel ones
SchedContinue(r) ==
  IF r.sched.pc = "seq"
    THEN LET i == Head(r.sched.seqLeft)
             rest == Tail(r.sched.seqLeft)
             r1 == [r EXCEPT
                      !.sched.results =
                         Append(@, StepResult(r.plan.steps[i].id, r.sres[i], r.esc.step[i])),
                      !.sched.completed = @ \cup {r.plan.steps[i].id},
                      !.sched.seqLeft = rest]
         IN IF r.sres[i] = "error" /\ input.abortOnError
              THEN [r1 EXCEPT !.sched.pc = "returned"]
            ELSE IF rest # <<>> THEN LimiterRun(r1, Head(rest))
            ELSE IF r1.sched.parBatch # <<>>
              THEN SubmitAll([r1 EXCEPT !.sched.pc = "par"], r1.sched.parBatch)
            ELSE SchedLoop(r1)
    ELSE LET par == r.sched.parBatch
             r1 == [r EXCEPT
                      !.sched.results =
                         @ \o [k \in DOMAIN par |->
                                 StepResult(r.plan.steps[par[k]].id, r.sres[par[k]],
                                            r.esc.step[par[k]])],
                      !.sched.completed = @ \cup {r.plan.steps[par[k]].id : k \in DOMAIN par},
                      !.sched.parBatch = <<>>]
         IN IF input.abortOnError /\ \E k \in DOMAIN par : r.sres[par[k]] = "error"
              THEN [r1 EXCEPT !.sched.pc = "returned"]
              ELSE SchedLoop(r1)

HasStatus(rs, status) == \E k \in DOMAIN rs : rs[k].status = status

\* run() after `await this.executeStepsWithEvents(...)`
AfterExecution(r) ==
  LET executionResults == r.sched.results
      r1 == [r EXCEPT !.steps = @ \o executionResults, !.sched.pc = "done"]
      escalatedSteps == SelectSeq(executionResults, LAMBDA x : x.status = "escalated")
  IN IF escalatedSteps # <<>> THEN FinishEscalation(r1, escalatedSteps[1].escalation)
     ELSE IF HasStatus(executionResults, "error") /\ input.abortOnError
       THEN FinishRun(r1, "error")
     ELSE BeginStage(r1, "synthesizer")

\* run() after `await this.runStepWithEvents(...)` of a pipeline stage
\* (with the rest of runStepWithEvents before it)
AfterStage(r) ==
  LET status == r.stage.status
      r1 == [StepEvents(r, status) EXCEPT
               !.steps = Append(@, StepResult(r.pc, status, r.esc.stage)),
               !.stage = NoStage, !.esc.stage = NoEscalation]
  IN CASE r.pc = "supervisor" ->
            IF status = "error" /\ input.abortOnError THEN FinishRun(r1, "error")
            ELSE IF status = "escalated" THEN FinishEscalation(r1, r.esc.stage)
            ELSE BeginStage(r1, "parser")
       [] r.pc = "parser" ->
            IF status = "error" /\ input.abortOnError THEN FinishRun(r1, "error")
            ELSE IF input.hasPlan
              THEN ExecuteStepsWithEvents([r1 EXCEPT !.plan = input.plan])
            ELSE BeginStage(r1, "planner")
       [] r.pc = "planner" ->
            IF status = "error" /\ input.abortOnError THEN FinishRun(r1, "error")
            ELSE ExecuteStepsWithEvents(
                   [r1 EXCEPT !.plan = ParsePlannerOutput(RunStepOutput(status))])
       [] r.pc = "synthesizer" ->
            FinishRun(r1, IF HasStatus(r.sched.results, "error") THEN "partial" ELSE "ok")

\* plan step i after `await this.runStep(...)`: the rest of
\* runStepWithEvents, then the finally block of limiter.run
AfterStep(r, i) ==
  LET r1 == [StepEvents(r, r.sres[i]) EXCEPT
               !.count = FinallyCount(@), !.phase[i] = "finished"]
  IN IF r1.queue # <<>>
       THEN [r1 EXCEPT !.queue = Shift(@).rest,
                       !.resolved = Append(@, Shift(r1.queue).entry)]
       ELSE r1

\* limiter.run after `await this.waitForSlot()`, for the waiter released first
AfterWait(r) ==
  BeginStep([r EXCEPT !.resolved = Tail(@), !.count = AcquireCount(@)], Head(r.resolved))

(***************************************************************************)
(* The steps of one run() as actions.  Each is one synchronous segment:    *)
(* the segment that follows an external completion (the bundle resolver,   *)
(* the LLM client, a registry call by another client, the clock) or the    *)
(* continuation of an await on one of the program's own promises.          *)
(***************************************************************************)
Stages == {"supervisor", "parser", "planner", "synthesizer"}

\* what engine.invokeAgentSafe can come back with
NetSkill == Skill("web-fetch", "specialist", "network_access", TRUE)
RootSkill == Skill("policy-edit", "root", "none", FALSE)
QuietNetSkill == Skill("web-ping", "user", "network_access", FALSE)
PlainSkill == Skill("read-files", "user", "read_repo", FALSE)

BundleOutcomes ==
  {[kind |-> k, skills |-> <<>>, missingSkill |-> "none"] : k \in {"error", "throws"}}
    \cup {[kind |-> "escalation", skills |-> <<>>, missingSkill |-> "deploy"]}
    \cup {[kind |-> "bundle", skills |-> s, missingSkill |-> "none"] :
            s \in {<<>>, <<PlainSkill, NetSkill>>, <<RootSkill>>, <<QuietNetSkill>>}}

LlmOutcomes == {"ok", "throws"}

RunFrame ==
  UNCHANGED <<maxConcurrent, queueTimeoutMs, lpc, limHist, maxTasks, input, probe>>

\* a continuation of one of the program's own promises, or a handler call
\* queued by emitEvent, is waiting to run.  Completions of the bundle
\* resolver's and the LLM client's I/O and requests of other clients are
\* macrotasks: they run when no microtask is pending.
MicrotaskPending ==
  \/ eventQueue # <<>>
  \/ resolved # <<>>
  \/ stage.phase = "settled"
  \/ \E i \in DOMAIN phase : phase[i] = "settled"
  \/ /\ runPc = "executing"
     /\ \/ sched.pc = "returned"
        \/ sched.pc = "seq" /\ phase[Head(sched.seqLeft)] = "finished"
        \/ sched.pc = "par" /\ \A k \in DOMAIN sched.parBatch :
                                  phase[sched.parBatch[k]] = "finished"

\* the collaborator calls of this run that did not end in success so far
Faults ==
  Cardinality({k \in DOMAIN steps : steps[k].stepId \in Stages /\ steps[k].status # "success"})
    + Cardinality({i \in DOMAIN sres : sres[i] \in {"error", "escalated"}})
    + (IF stage.status \in {"error", "escalated"} THEN 1 ELSE 0)

\* the outcomes the collaborators may still produce
Allowed(status) == status \in {"success", "llm"} \/ Faults < input.faults

\* run(input), up to the first await: the task is created and set running,
\* run_started is emitted and the supervisor stage begins
RunStart ==
  /\ runPc = "idle"
  /\ nextTaskId < MaxCreates
  /\ LET id == nextTaskId + 1
         created == CreateTasks(tasks, maxTasks, id, "query", now)
     IN /\ taskId' = id
        /\ nextTaskId' = id
        /\ abortControllers' = CreateControllers(abortControllers, tasks, maxTasks, id)
        /\ Install(BeginStage(
                     Emit([Cur EXCEPT !.tasks = UpdateStatusTasks(created, id, "running")],
                          "run_started"),
                     "supervisor"))
  /\ UNCHANGED <<now, expired, handled>>
  /\ RunFrame

\* engine.invokeAgentSafe settles for the pipeline stage in progress
StageBundleResolves(outcome) ==
  /\ runPc \in Stages
  /\ stage.phase = "bundle"
  /\ ~MicrotaskPending
  /\ Allowed(AfterBundle(outcome, StageResidence(runPc)))
  /\ LET status == AfterBundle(outcome, StageResidence(runPc))
     IN stage' = IF status = "llm" THEN [phase |-> "llm", status |-> "none"]
                 ELSE [phase |-> "settled", status |-> status]
  /\ esc' = [esc EXCEPT !.stage =
               IF AfterBundle(outcome, StageResidence(runPc)) = "escalated"
                 THEN EscalationOf(outcome, StageResidence(runPc)) ELSE NoEscalation]
  /\ UNCHANGED <<runPc, steps, plan, runResult, sched, phase, sres, currentCount, queue,
                 resolved, eventQueue, tasks>>
  /\ UNCHANGED <<taskId, nextTaskId, abortControllers, now, expired, handled>>
  /\ RunFrame

\* llmClient.generate settles for the pipeline stage in progress
StageLlmResolves(outcome) ==
  /\ runPc \in Stages
  /\ stage.phase = "llm"
  /\ ~MicrotaskPending
  /\ Allowed(AfterLlm(outcome))
  /\ stage' = [phase |-> "settled", status |-> AfterLlm(outcome)]
  /\ UNCHANGED esc
  /\ UNCHANGED <<runPc, steps, plan, runResult, sched, phase, sres, currentCount, queue,
                 resolved, eventQueue, tasks>>
  /\ UNCHANGED <<taskId, nextTaskId, abortControllers, now, expired, handled>>
  /\ RunFrame

\* run() resumes after a pipeline stage
RunContinues ==
  /\ runPc \in Stages
  /\ stage.phase = "settled"
  /\ Install(AfterStage(Cur))
  /\ UNCHANGED <<taskId, nextTaskId, abortControllers, now, expired, handled>>
  /\ RunFrame

\* engine.invokeAgentSafe settles for plan step i
StepBundleResolves(i, outcome) ==
  /\ runPc = "executing"
  /\ i \in DOMAIN phase
  /\ phase[i] = "bundle"
  /\ ~MicrotaskPending
  /\ Allowed(AfterBundle(outcome, plan.steps[i].agentResidence))
  /\ LET status == AfterBundle(outcome, plan.steps[i].agentResidence)
     IN IF status = "llm"
          THEN phase' = [phase EXCEPT ![i] = "llm"] /\ UNCHANGED sres
          ELSE phase' = [phase EXCEPT ![i] = "settled"] /\ sres' = [sres EXCEPT ![i] = status]
  /\ esc' = [esc EXCEPT !.step[i] =
               IF AfterBundle(outcome, plan.steps[i].agentResidence) = "escalated"
                 THEN EscalationOf(outcome, plan.steps[i].agentResidence)
                 ELSE NoEscalation]
  /\ UNCHANGED <<runPc, steps, plan, runResult, stage, sched, currentCount, queue,
                 resolved, eventQueue, tasks>>
  /\ UNCHANGED <<taskId, nextTaskId, abortControllers, now, expired, handled>>
  /\ RunFrame

\* llmClient.generate settles for plan step i
StepLlmResolves(i, outcome) ==
  /\ runPc = "executing"
  /\ i \in DOMAIN phase
  /\ phase[i] = "llm"
  /\ ~MicrotaskPending
  /\ Allowed(AfterLlm(outcome))
  /\ phase' = [phase EXCEPT ![i] = "settled"]
  /\ sres' = [sres EXCEPT ![i] = AfterLlm(outcome)]
  /\ UNCHANGED esc
  /\ UNCHANGED <<runPc, steps, plan, runResult, stage, sched, currentCount, queue,
                 resolved, eventQueue, tasks>>
  /\ UNCHANGED <<taskId, nextTaskId, abortControllers, now, expired, handled>>
  /\ RunFrame

\* plan step i resumes after runStep and leaves the limiter
StepContinues(i) ==
  /\ runPc = "executing"
  /\ i \in DOMAIN phase
  /\ phase[i] = "settled"
  /\ Install(AfterStep(Cur, i))
  /\ UNCHANGED <<taskId, nextTaskId, abortControllers, now, expired, handled>>
  /\ RunFrame

\* the waiter released first resumes inside limiter.run
StepResumes ==
  /\ runPc = "executing"
  /\ resolved # <<>>
  /\ Install(AfterWait(Cur))
  /\ UNCHANGED <<taskId, nextTaskId, abortControllers, now, expired, handled>>
  /\ RunFrame

\* the scheduler resumes once the sequential step it awaits, or every step
\* of the parallel fan-out it awaits, has left the limiter
SchedulerContinues ==
  /\ runPc = "executing"
  /\ \/ sched.pc = "seq" /\ phase[Head(sched.seqLeft)] = "finished"
     \/ sched.pc = "par" /\ \A k \in DOMAIN sched.parBatch :
                               phase[sched.parBatch[k]] = "finished"
  /\ Install(SchedContinue(Cur))
  /\ UNCHANGED <<taskId, nextTaskId, abortControllers, now, expired, handled>>
  /\ RunFrame

\* run() resumes after executeStepsWithEvents has returned its results
ExecReturns ==
  /\ runPc = "executing"
  /\ sched.pc = "returned"
  /\ Install(AfterExecution(Cur))
  /\ UNCHANGED <<taskId, nextTaskId, abortControllers, now, expired, handled>>
  /\ RunFrame

\* another client calls taskRegistry.cancel(taskId)
CancelRun ==
  /\ runPc # "idle"
  /\ ~MicrotaskPending
  /\ tasks' = CancelTasks(tasks, taskId)
  /\ abortControllers' = CancelControllers(abortControllers, tasks, taskId)
  /\ UNCHANGED <<runPc, steps, plan, runResult, stage, sched, phase, sres, esc,
                 currentCount,
                 queue, resolved, eventQueue>>
  /\ UNCHANGED <<taskId, nextTaskId, now, expired, handled>>
  /\ RunFrame

\* more than config.totalTimeoutMs has passed since run() was called
TimePasses ==
  /\ runPc \notin {"idle", "returned"}
  /\ ~expired
  /\ expired' = TRUE
  /\ UNCHANGED <<runPc, steps, plan, runResult, stage, sched, phase, sres, esc,
                 currentCount,
                 queue, resolved, eventQueue, tasks>>
  /\ UNCHANGED <<taskId, nextTaskId, abortControllers, now, handled>>
  /\ RunFrame

\* what a call of the handler can end in: it returns (a value that is not a
\* promise), it throws, or it returns a promise that rejects or that never
\* settles
HandlerOutcomes == {"returns", "throws", "rejects", "pending"}

\* (a faulty variant, for comparison: the microtask calls handler(event)
\* with no try/catch and attaches no catch to the promise it returns)
HandlerUncaught(h) == IF h \in {"throws", "rejects"} THEN "uncaught" ELSE "swallowed"

\* the microtask of emitEvent: what of the handler's outcome gets out of it.
\* A throw is caught by the try/catch, the promise gets a catch that ignores
\* the rejection, and nothing waits for the promise
HandlerReaches(h) ==
  CASE h = "throws" -> "swallowed"
    [] h \in {"rejects", "pending"} -> "swallowed"
    [] OTHER -> "swallowed"

\* the microtask queued by emitEvent runs: the handler is called with the
\* event.  An exception that nothing catches ends the process.
DeliverEvent(h) ==
  /\ eventQueue # <<>>
  /\ handled' = [handled EXCEPT ![Head(eventQueue)] = @ + 1]
  /\ eventQueue' = Tail(eventQueue)
  /\ runPc' = IF HandlerReaches(h) = "uncaught" THEN "crashed" ELSE runPc
  /\ probe' = IF probe.op = "handler" THEN [probe EXCEPT !.seen = @ \cup {h}] ELSE probe
  /\ UNCHANGED <<steps, plan, runResult, stage, sched, phase, sres, esc,
                 currentCount,
                 queue, resolved, tasks>>
  /\ UNCHANGED <<taskId, nextTaskId, abortControllers, now, expired>>
  /\ UNCHANGED <<maxConcurrent, queueTimeoutMs, lpc, limHist, maxTasks, input>>

(***************************************************************************)
(* The inputs of the modelled run: caller-supplied plans (or none, so that *)
(* the planner stage runs), the config and the event options.              *)
(***************************************************************************)
Ts == <<"Liku", "specialist", "ts">>

SingleStepPlan == PlannerOutput(<<PlanStep("a", Ts, <<>>, FALSE)>>, FALSE)

ChainPlan ==
  PlannerOutput(<<PlanStep("a", Ts, <<>>, FALSE), PlanStep("b", Ts, <<"a">>, FALSE)>>, FALSE)

\* a, then b and c side by side, then d
JoinPlan ==
  PlannerOutput(<<PlanStep("a", Ts, <<>>, FALSE), PlanStep("b", Ts, <<"a">>, TRUE),
                  PlanStep("c", Ts, <<"a">>, TRUE), PlanStep("d", Ts, <<"c", "b">>, FALSE)>>,
                FALSE)

\* one ready batch with sequential and parallel steps
MixedPlan ==
  PlannerOutput(<<PlanStep("a", Ts, <<>>, FALSE), PlanStep("b", Ts, <<>>, TRUE),
                  PlanStep("c", Ts, <<>>, FALSE)>>, FALSE)

\* a and b depend on each other, c is free
CyclePlan ==
  PlannerOutput(<<PlanStep("a", Ts, <<"b">>, FALSE), PlanStep("b", Ts, <<"a">>, FALSE),
                  PlanStep("c", Ts, <<>>, FALSE)>>, FALSE)

\* a and b depend on each other, and a second step has the id b
RepeatedIdPlan ==
  PlannerOutput(<<PlanStep("a", Ts, <<"b">>, FALSE), PlanStep("b", Ts, <<"a">>, FALSE),
                  PlanStep("b", Ts, <<>>, FALSE)>>, FALSE)

MissingDependencyPlan ==
  PlannerOutput(<<PlanStep("a", Ts, <<>>, FALSE), PlanStep("b", Ts, <<"zzz">>, FALSE)>>,
                FALSE)

RootResidencePlan ==
  PlannerOutput(<<PlanStep("a", <<"Liku", "root", "ops">>, <<>>, FALSE)>>, FALSE)

\* one more parallel step than the limiter has slots
FanOutPlan ==
  PlannerOutput([i \in 1..6 |-> PlanStep(IdOrder[i], Ts, <<>>, TRUE)], FALSE)

EmptyPlan == PlannerOutput(<<>>, FALSE)

\* `plan.steps` is not an array
MalformedPlan == [hasSteps |-> FALSE, steps |-> <<>>, escalationRequests |-> FALSE]

NoPlan == [hasSteps |-> FALSE, steps |-> <<>>, escalationRequests |-> FALSE]

EventOptions(onEvent, stepEvents) ==
  [onEvent |-> onEvent, emitStepStarted |-> stepEvents, emitStepCompleted |-> stepEvents,
   emitEscalation |-> stepEvents, emitElicitation |-> stepEvents]

\* `faults` is not part of the OrchestrationInput: it is the number of
\* collaborator calls that may end other than in success during the run
Input(hasPlan, p, abortOnError, llm, events, faults) ==
  [hasPlan |-> hasPlan, plan |-> p, abortOnError |-> abortOnError,
   executeWithLlm |-> llm, llmConfigured |-> llm, events |-> events,
   maxConcurrency |-> DefaultMaxConcurrency,
   startResidence |-> <<"Liku", "root">>, faults |-> faults]

SuppliedPlans ==
  {SingleStepPlan, ChainPlan, JoinPlan, MixedPlan, CyclePlan, RepeatedIdPlan,
   MissingDependencyPlan, RootResidencePlan, EmptyPlan, MalformedPlan}

RunEvents == EventOptions(TRUE, FALSE)     \* step events switched off
AllEvents == EventOptions(TRUE, TRUE)
NoHandler == EventOptions(FALSE, TRUE)

\* the plans of two steps and more that are not a chain get one fault, the
\* fan-out none
Inputs ==
  {Input(TRUE, p, a, FALSE, RunEvents, MaxFaults) :
     p \in SuppliedPlans \ {JoinPlan, MixedPlan}, a \in BOOLEAN}
    \cup {Input(TRUE, p, a, FALSE, RunEvents, 1) : p \in {JoinPlan, MixedPlan}, a \in BOOLEAN}
    \cup {Input(TRUE, FanOutPlan, a, FALSE, RunEvents, 0) : a \in BOOLEAN}
    \cup {Input(TRUE, ChainPlan, a, TRUE, e, MaxFaults) :
            a \in BOOLEAN, e \in {NoHandler, AllEvents}}
    \cup {Input(FALSE, NoPlan, a, l, RunEvents, MaxFaults) : a \in BOOLEAN, l \in BOOLEAN}
    \cup {[Input(TRUE, JoinPlan, TRUE, FALSE, NoHandler, 0) EXCEPT !.maxConcurrency = k] :
            k \in 1..MaxN}

(***************************************************************************)
(* Specifications.                                                         *)
(***************************************************************************)
\* new ConcurrencyLimiter(options): maxConcurrent >= 1, or the constructor throws
LimFresh(n, timeout, callers) ==
  /\ maxConcurrent = n
  /\ queueTimeoutMs = timeout
  /\ currentCount = 0
  /\ queue = <<>>
  /\ resolved = <<>>
  /\ lpc = [c \in callers |-> "idle"]
  /\ startLog = <<>>
  /\ enqLog = <<>>
  /\ waitingAt = [c \in callers |-> {}]

\* new TaskRegistry(maxTasks)
RegFresh(max) ==
  /\ maxTasks = max
  /\ tasks = <<>>
  /\ abortControllers = [id \in TaskIds |-> "absent"]
  /\ nextTaskId = 0
  /\ now = 0

\* before run(input) is called
RunFresh(in) ==
  /\ input = in
  /\ runPc = "idle"
  /\ taskId = 0
  /\ steps = <<>>
  /\ plan = NoPlan
  /\ runResult = "none"
  /\ stage = NoStage
  /\ sched = [pc |-> "idle", completed |-> {}, results |-> <<>>,
              seqLeft |-> <<>>, parBatch |-> <<>>]
  /\ phase = <<>>
  /\ sres = <<>>
  /\ esc = [stage |-> NoEscalation, step |-> <<>>, run |-> NoEscalation]
  /\ expired = FALSE
  /\ eventQueue = <<>>
  /\ handled = [t \in EventTypes |-> 0]

\* no pure function is being called on its own
NoProbe == [op |-> "none"]

vars == <<limVars, limHist, regVars, runVars, probe>>

\* ---- a stand-alone ConcurrencyLimiter under arbitrary callers ----
LimInit ==
  /\ \E n \in 1..MaxN, timeout \in {0, 1} : LimFresh(n, timeout, Calls)
  /\ RegFresh(1)
  /\ RunFresh(Input(FALSE, NoPlan, TRUE, FALSE, NoHandler, 0))
  /\ probe = NoProbe

LimNext ==
  \/ \E c \in Calls : LimRun(c)
  \/ \E c \in Calls : LimTryRun(c)
  \/ \E c \in Calls : LimTaskSettles(c, "returned")
  \/ \E c \in Calls : LimTaskSettles(c, "threw")
  \/ LimResume
  \/ \E c \in Calls : LimQueueTimeout(c)
  \/ LimClearQueue

LimiterSpec == LimInit /\ [][LimNext]_vars

\* every task that was started settles, and the event loop runs the
\* continuation of a released waiter; nothing is assumed about new calls,
\* timers and clearQueue
LimFairness ==
  /\ \A c \in Calls : WF_vars(\E how \in {"returned", "threw"} : LimTaskSettles(c, how))
  /\ WF_vars(LimResume)

LimFairSpec == LimiterSpec /\ LimFairness

\* ---- a stand-alone TaskRegistry under arbitrary calls ----
RegInit ==
  /\ \E max \in Capacities : RegFresh(max)
  /\ LimFresh(1, 0, {})
  /\ RunFresh(Input(FALSE, NoPlan, TRUE, FALSE, NoHandler, 0))
  /\ probe = NoProbe

RegNext ==
  \/ \E tick \in {0, 1} : RegCreate(tick)
  \/ \E id \in TaskIds, st \in Statuses : RegUpdateStatus(id, st)
  \/ \E id \in TaskIds, r \in RegResults : RegSetResult(id, r)
  \/ \E id \in TaskIds : RegCancel(id)
  \/ \E id \in TaskIds : RegDelete(id)

RegistrySpec == RegInit /\ [][RegNext]_vars

\* ---- one orchestrator.run() on a fresh Orchestrator and registry ----
RunInit ==
  /\ \E in \in Inputs : RunFresh(in)
  /\ LimFresh(LimiterSlots, 0, {})
  /\ RegFresh(DefaultMaxTasks)
  /\ probe = NoProbe

RunNext ==
  \/ RunStart
  \/ \E o \in BundleOutcomes : StageBundleResolves(o)
  \/ \E o \in LlmOutcomes : StageLlmResolves(o)
  \/ RunContinues
  \/ \E i \in DOMAIN phase, o \in BundleOutcomes : StepBundleResolves(i, o)
  \/ \E i \in DOMAIN phase, o \in LlmOutcomes : StepLlmResolves(i, o)
  \/ \E i \in DOMAIN phase : StepContinues(i)
  \/ StepResumes
  \/ SchedulerContinues
  \/ ExecReturns
  \/ CancelRun
  \/ TimePasses
  \/ \E h \in HandlerOutcomes : DeliverEvent(h)

RunSpec == RunInit /\ [][RunNext]_vars

\* the event loop keeps running what is ready, and the collaborators'
\* calls settle
RunFairSpec == RunSpec /\ WF_vars(RunNext)

\* ---- validatePlan(plan, constraints) called on its own ----
ProbeFrame == UNCHANGED <<limVars, limHist, regVars, runVars>>

Idle ==
  /\ LimFresh(1, 0, {})
  /\ RegFresh(1)
  /\ RunFresh(Input(FALSE, NoPlan, TRUE, FALSE, NoHandler, 0))

\* the plans handed to validatePlan: every list of up to MaxPlanSteps
\* steps over three ids, each step depending on none, one or two of them
ProbeIds == {"a", "b", "c"}
ProbeDeps == {<<>>, <<"a">>, <<"b">>, <<"c">>, <<"b", "c">>}
ProbeSteps ==
  {PlanStep(id, <<"Liku", "specialist", "ts">>, deps, FALSE) :
     id \in ProbeIds, deps \in ProbeDeps}
ProbePlans ==
  {PlannerOutput(ps, FALSE) : ps \in UNION {[1..n -> ProbeSteps] : n \in 0..MaxPlanSteps}}

\* cfg = { ...DEFAULT_PLAN_CONSTRAINTS, ...constraints } for constraints =
\* {} and for constraints = { maxSteps }
WithMaxSteps(n) == [DEFAULT_PLAN_CONSTRAINTS EXCEPT !.maxSteps = n]
ProbeConstraints == {DEFAULT_PLAN_CONSTRAINTS, WithMaxSteps(MaxPlanSteps - 1)}

ValidatorInit ==
  /\ Idle
  /\ \E p \in ProbePlans, cfg \in ProbeConstraints :
        probe = [op |-> "validatePlan", plan |-> p, cfg |-> cfg,
                 returned |-> FALSE, out |-> Valid, after |-> p]

ValidatePlanCall ==
  /\ probe.op = "validatePlan"
  /\ ~probe.returned
  /\ probe' = [probe EXCEPT !.returned = TRUE,
                            !.out = ValidatePlan(probe.plan, probe.cfg),
                            !.after = PlanAfterValidate(probe.plan, probe.cfg)]
  /\ ProbeFrame

ValidatorNext == ValidatePlanCall

ValidatorSpec == ValidatorInit /\ [][ValidatorNext]_vars

\* ---- getResidencePrivilege(path) and validateSkillExecution(skill, p)
\*      called on their own ----
\* the residence paths: up to MaxSegments segments between slashes
Segments == {"Liku", "root", "specialist", "rootless", "specialists", "ts"}
ProbePaths == UNION {[1..n -> Segments] : n \in 1..MaxSegments}

ProbeSkills ==
  {Skill("skill", req, cap, e) :
     req \in Privileges, cap \in Capabilities \cup {"none"}, e \in BOOLEAN}

PrivilegeInit ==
  /\ Idle
  /\ \/ \E path \in ProbePaths :
          probe = [op |-> "getResidencePrivilege", path |-> path,
                   returned |-> FALSE, out |-> "none"]
     \/ \E skill \in ProbeSkills, p \in Privileges :
          probe = [op |-> "validateSkillExecution", skill |-> skill, privilege |-> p,
                   returned |-> FALSE, out |-> "none"]
     \/ \E p \in Privileges, c \in Capabilities :
          probe = [op |-> "hasCapability", privilege |-> p, capability |-> c,
                   returned |-> FALSE, out |-> FALSE]

GetResidencePrivilegeCall ==
  /\ probe.op = "getResidencePrivilege"
  /\ ~probe.returned
  /\ probe' = [probe EXCEPT !.returned = TRUE, !.out = GetResidencePrivilege(probe.path)]
  /\ ProbeFrame

ValidateSkillExecutionCall ==
  /\ probe.op = "validateSkillExecution"
  /\ ~probe.returned
  /\ probe' = [probe EXCEPT !.returned = TRUE,
                            !.out = ValidateSkillExecution(probe.skill, probe.privilege)]
  /\ ProbeFrame

HasCapabilityCall ==
  /\ probe.op = "hasCapability"
  /\ ~probe.returned
  /\ probe' = [probe EXCEPT !.returned = TRUE,
                            !.out = HasCapability(probe.privilege, probe.capability)]
  /\ ProbeFrame

PrivilegeNext ==
  GetResidencePrivilegeCall \/ ValidateSkillExecutionCall \/ HasCapabilityCall

PrivilegeSpec == PrivilegeInit /\ [][PrivilegeNext]_vars

\* ---- validatePlan on plans that break several constraints at once ----
\* plans of up to MaxPlanSteps steps with the ids a, b, c, ... in this
\* order, every step with one of the given dependsOn lists and one of the
\* given residences and parallel flags
PlansOver(depsChoices, flavours) ==
  {PlannerOutput([k \in 1..n |->
                    PlanStep(IdOrder[k], fl[k].agentResidence, deps[k], fl[k].parallel)],
                 FALSE) :
     <<n, deps, fl>> \in
       UNION {{n} \X [1..n -> depsChoices] \X [1..n -> flavours] : n \in 0..MaxPlanSteps}}

SpecialistFlavours ==
  {[agentResidence |-> Ts, parallel |-> FALSE], [agentResidence |-> Ts, parallel |-> TRUE]}

\* a step depends on nothing, on the unknown zzz or on b and a, and is
\* sequential or parallel at a specialist residence, parallel outside Liku/
\* or sequential at the root residence; or the steps are at a specialist
\* residence and list a and b in either order
ConstraintPlans ==
  PlansOver({<<>>, <<"zzz">>, <<"b", "a">>},
            SpecialistFlavours
              \cup {[agentResidence |-> <<"tmp", "ts">>, parallel |-> TRUE],
                    [agentResidence |-> <<"Liku", "root">>, parallel |-> FALSE]})
    \cup PlansOver({<<>>, <<"a", "b">>, <<"b", "a">>}, SpecialistFlavours)

\* the plan of the parallelism test (six parallel steps with dependsOn [])
\* and the same plan without its sixth step
BoundaryPlans ==
  {FanOutPlan, PlannerOutput(SubSeq(FanOutPlan.steps, 1, Len(FanOutPlan.steps) - 1), FALSE)}

\* constraints: { maxParallelism: 2 } and a strict context for the plans
\* above, the defaults too for the plans of the test
StrictConstraints ==
  [DEFAULT_PLAN_CONSTRAINTS EXCEPT !.maxSteps = MaxPlanSteps - 1, !.maxParallelism = 1,
                                   !.allowEscalationRequests = FALSE]
ConstraintConfigs ==
  {[DEFAULT_PLAN_CONSTRAINTS EXCEPT !.maxParallelism = 2], StrictConstraints}

\* the plan may carry escalationRequests where the constraints forbid them
ConstraintInit ==
  /\ Idle
  /\ \E call \in (ConstraintPlans \X ConstraintConfigs)
                   \cup (BoundaryPlans \X ({DEFAULT_PLAN_CONSTRAINTS} \cup ConstraintConfigs)) :
        \E e \in IF call[2].allowEscalationRequests THEN {FALSE} ELSE BOOLEAN :
           probe = [op |-> "validatePlan",
                    plan |-> [call[1] EXCEPT !.escalationRequests = e],
                    cfg |-> call[2], returned |-> FALSE, out |-> Valid,
                    after |-> [call[1] EXCEPT !.escalationRequests = e]]

ConstraintSpec == ConstraintInit /\ [][ValidatorNext]_vars

\* ---- validatePlan under the constraints of a privilege ----
\* plans whose steps live at a user, a specialist or a root residence,
\* validated with constraintsFromPrivilege(p) for each privilege p
ContextResidences == {<<"Liku", "user", "guest">>, Ts, <<"Liku", "root", "ops">>}

ContextPlans ==
  PlansOver({<<>>}, {[agentResidence |-> res, parallel |-> FALSE] : res \in ContextResidences})

ContextInit ==
  /\ Idle
  /\ \E p \in ContextPlans, privilege \in Privileges :
        probe = [op |-> "validatePlan", plan |-> p, cfg |-> ConstraintsFromPrivilege(privilege),
                 returned |-> FALSE, out |-> Valid, after |-> p, context |-> privilege]

ContextSpec == ContextInit /\ [][ValidatorNext]_vars

\* ---- one orchestrator.run() with the outcomes of the handler calls kept ----
\* the same run with no handler, with a handler for the run events only and
\* with a handler for every event
HandlerInputs ==
  {Input(TRUE, ChainPlan, a, TRUE, e, 1) :
     a \in BOOLEAN, e \in {NoHandler, RunEvents, AllEvents}}
    \cup {Input(TRUE, FanOutPlan, TRUE, FALSE, e, 0) : e \in {NoHandler, RunEvents}}

HandlerInit ==
  /\ \E in \in HandlerInputs : RunFresh(in)
  /\ LimFresh(LimiterSlots, 0, {})
  /\ RegFresh(DefaultMaxTasks)
  /\ probe = [op |-> "handler", seen |-> {}]

HandlerSpec == HandlerInit /\ [][RunNext]_vars

\* ---- one orchestrator.run() on plans that validatePlan accepts ----
\* a and b, then c after a side by side with d after b
CrossPlan ==
  PlannerOutput(<<PlanStep("a", Ts, <<>>, FALSE), PlanStep("b", Ts, <<>>, FALSE),
                  PlanStep("c", Ts, <<"a">>, TRUE), PlanStep("d", Ts, <<"b">>, TRUE)>>,
                FALSE)

BatchInputs ==
  {Input(TRUE, p, a, FALSE, NoHandler, 1) : p \in {CrossPlan, JoinPlan}, a \in BOOLEAN}
    \cup {Input(TRUE, ChainPlan, TRUE, TRUE, AllEvents, 1),
          Input(TRUE, FanOutPlan, TRUE, FALSE, NoHandler, 0)}

BatchInit ==
  /\ \E in \in BatchInputs : RunFresh(in)
  /\ LimFresh(LimiterSlots, 0, {})
  /\ RegFresh(DefaultMaxTasks)
  /\ probe = NoProbe

BatchSpec == BatchInit /\ [][RunNext]_vars

(***************************************************************************)
(* The HTTP server's POST /a2a/tasks/send.  Every request is a caller of   *)
(* the ingress limiter; its task is orchestrator.run(), of which the       *)
(* server sees the first segment (the task is created in the registry and  *)
(* set running before the first await) and the return (finishRun has       *)
(* called setResult).  `lpc` is where the request's handler stands;        *)
(* probe.own is the id of the task its run() created, probe.response what  *)
(* the handler answered, probe.ownStatus the status its own task had then. *)
(***************************************************************************)
NoResponse == [taskId |-> 0, status |-> "none"]

\* a continuation of the program's own promises is waiting to run: that of
\* a released waiter, or that of a handler whose limiter.run has returned
SendMicrotaskPending ==
  resolved # <<>> \/ \E c \in DOMAIN lpc : lpc[c] = "finished"

\* orchestrator.run(orchestrationInput), up to its first await
SendStartsRun(c) ==
  /\ nextTaskId < MaxCreates
  /\ LET id == nextTaskId + 1 IN
       /\ nextTaskId' = id
       /\ tasks' = UpdateStatusTasks(CreateTasks(tasks, maxTasks, id, "query", now),
                                     id, "running")
       /\ abortControllers' = CreateControllers(abortControllers, tasks, maxTasks, id)
       /\ probe' = [probe EXCEPT !.own[c] = id]
  /\ UNCHANGED <<maxTasks, now>>

\* the handler, up to `await limiter.run(...)`: the request waits in the
\* queue, or takes a slot and its run() begins
SendArrives(c) ==
  /\ probe.op = "send"
  /\ lpc[c] = "idle"
  /\ ~SendMicrotaskPending
  /\ IF AtCapacity(currentCount, maxConcurrent)
       THEN /\ queue' = Append(queue, c)
            /\ lpc' = [lpc EXCEPT ![c] = "queued"]
            /\ UNCHANGED <<currentCount, regVars, probe>>
       ELSE /\ currentCount' = AcquireCount(currentCount)
            /\ lpc' = [lpc EXCEPT ![c] = "running"]
            /\ SendStartsRun(c)
            /\ UNCHANGED queue
  /\ UNCHANGED <<maxConcurrent, queueTimeoutMs, resolved, limHist, runVars>>

\* limiter.run after `await this.waitForSlot()`, for the waiter released
\* first: it takes the slot and its run() begins
SendResumes ==
  /\ probe.op = "send"
  /\ resolved # <<>>
  /\ resolved' = Tail(resolved)
  /\ currentCount' = AcquireCount(currentCount)
  /\ lpc' = [lpc EXCEPT ![Head(resolved)] = "running"]
  /\ SendStartsRun(Head(resolved))
  /\ UNCHANGED <<maxConcurrent, queueTimeoutMs, queue, limHist, runVars>>

\* a run() returns: finishRun has stored the result, and the finally block
\* of limiter.run gives the slot back and releases the next waiter
SendRunReturns(c, kind) ==
  /\ probe.op = "send"
  /\ lpc[c] = "running"
  /\ ~SendMicrotaskPending
  /\ tasks' = SetResultTasks(tasks, probe.own[c], [kind |-> kind])
  /\ currentCount' = FinallyCount(currentCount)
  /\ lpc' = [lpc EXCEPT ![c] = "finished"]
  /\ IF queue # <<>>
       THEN /\ queue' = Shift(queue).rest
            /\ resolved' = Append(resolved, Shift(queue).entry)
       ELSE UNCHANGED <<queue, resolved>>
  /\ UNCHANGED <<maxConcurrent, queueTimeoutMs, limHist, runVars, probe>>
  /\ UNCHANGED <<maxTasks, abortControllers, nextTaskId, now>>

\* the handler after `await limiter.run(...)`: tasks = taskRegistry.list(),
\* lastTask = tasks[tasks.length - 1], and the response is sent.  The
\* continuation of a waiter released by the finally block runs before it.
SendResponds(c) ==
  /\ probe.op = "send"
  /\ lpc[c] = "finished"
  /\ resolved = <<>>
  /\ lpc' = [lpc EXCEPT ![c] = "responded"]
  /\ probe' = [probe EXCEPT
                 !.response[c] =
                    IF tasks = <<>> THEN [taskId |-> 0, status |-> "completed"]
                    ELSE [taskId |-> tasks[Len(tasks)].id,
                          status |-> tasks[Len(tasks)].status],
                 !.ownStatus[c] = GetTask(tasks, probe.own[c]).status]
  /\ UNCHANGED <<maxConcurrent, queueTimeoutMs, currentCount, queue, resolved, limHist>>
  /\ UNCHANGED <<regVars, runVars>>

\* the queue timer of a waiting request fires: limiter.run rejects and the
\* error handler answers 503; no task was created
SendQueueTimeout(c) ==
  /\ probe.op = "send"
  /\ queueTimeoutMs > 0
  /\ ~SendMicrotaskPending
  /\ c \in Range(queue)
  /\ queue' = RemoveEntry(queue, c)
  /\ lpc' = [lpc EXCEPT ![c] = "rejected"]
  /\ UNCHANGED <<maxConcurrent, queueTimeoutMs, currentCount, resolved, limHist>>
  /\ UNCHANGED <<regVars, runVars, probe>>

SendInit ==
  /\ \E n \in 1..MaxN, timeout \in {0, 1} : LimFresh(n, timeout, Calls)
  /\ RegFresh(DefaultMaxTasks)
  /\ RunFresh(Input(FALSE, NoPlan, TRUE, FALSE, NoHandler, 0))
  /\ probe = [op |-> "send", own |-> [c \in Calls |-> 0],
              response |-> [c \in Calls |-> NoResponse],
              ownStatus |-> [c \in Calls |-> "none"]]

SendNext ==
  \/ \E c \in Calls : SendArrives(c)
  \/ SendResumes
  \/ \E c \in Calls, kind \in {"ok", "error"} : SendRunReturns(c, kind)
  \/ \E c \in Calls : SendResponds(c)
  \/ \E c \in Calls : SendQueueTimeout(c)

SendSpec == SendInit /\ [][SendNext]_vars

(***************************************************************************)
(* The skills loader.  A skills.xml is the sequence of its <skill>         *)
(* elements as the XML parser hands them over: the id and the privilege    *)
(* attribute as written.  The files of a residence are the list that       *)
(* findSkillsXmlFiles returns: the residence's own file first, the trust   *)
(* root's last; `dir` is the depth of the file's directory below the root. *)
(* A Map is the sequence of its entries in insertion order.                *)
(***************************************************************************)
RawSkill(id, privilege) == [id |-> id, privilege |-> privilege]

SkillsFile(dir, decls) == [dir |-> dir, decls |-> decls]

\* normalizePrivilege(raw)
NormalizePrivilege(raw) == IF raw \in {"root", "specialist", "user"} THEN raw ELSE "user"

\* loadSkillsXml(skillsXmlPath, residencePath): elements without an id are
\* dropped, the others become LikuSkills in the order of the file
LoadSkillsXml(file) ==
  LET named == SelectSeq(file.decls, LAMBDA raw : raw.id # "")
  IN [k \in DOMAIN named |->
        [id |-> named[k].id, residencePath |-> file.dir,
         requiredPrivilege |-> NormalizePrivilege(named[k].privilege)]]

\* Map.prototype.set(skill.id, skill): a key already there keeps its place
MapSet(byId, skill) ==
  IF \E k \in DOMAIN byId : byId[k].id = skill.id
    THEN [k \in DOMAIN byId |-> IF byId[k].id = skill.id THEN skill ELSE byId[k]]
    ELSE Append(byId, skill)

\* for (const skill of loadSkillsXml(file, fileDir)) byId.set(skill.id, skill)
RECURSIVE SetEach(_, _)
SetEach(byId, skills) ==
  IF skills = <<>> THEN byId ELSE SetEach(MapSet(byId, Head(skills)), Tail(skills))

\* files.reverse()
Reverse(s) == [k \in DOMAIN s |-> s[Len(s) + 1 - k]]

\* for (const file of ...): the files in the order given
RECURSIVE LoadEach(_, _)
LoadEach(byId, files) ==
  IF files = <<>> THEN byId
  ELSE LoadEach(SetEach(byId, LoadSkillsXml(Head(files))), Tail(files))

\* skills.sort((a, b) => a.id.localeCompare(b.id)): a stable sort; on the
\* lower-case ids of IdOrder the collation order is that of IdRank
RECURSIVE SortSkills(_)
SortSkills(skills) ==
  IF skills = <<>> THEN <<>>
  ELSE LET m == CHOOSE i \in DOMAIN skills :
                  /\ \A j \in DOMAIN skills : IdRank(skills[i].id) <= IdRank(skills[j].id)
                  /\ \A j \in DOMAIN skills :
                        j < i => IdRank(skills[j].id) > IdRank(skills[i].id)
       IN <<skills[m]>> \o SortSkills([k \in 1..(Len(skills) - 1) |->
                                          IF k < m THEN skills[k] ELSE skills[k + 1]])

\* (a faulty variant, for comparison: the files are read leaf first, so an
\* ancestor's declaration replaces the residence's)
LoadInheritedSkillsLeafFirst(files) ==
  LET byId == LoadEach(<<>>, files)
  IN [skills |-> SortSkills(byId), byId |-> byId]
\* loadInheritedSkills(residenceDir, likuRootDir), given the files found
LoadInheritedSkills(files) ==
  LET byId == LoadEach(<<>>, Reverse(files))
  IN [skills |-> SortSkills(byId), byId |-> byId]

\* ---- loadInheritedSkills called on its own ----
\* the <skill> elements: two ids, each with a valid and with an unknown
\* privilege, and an element without an id
RawSkills ==
  {RawSkill(id, pr) : id \in {"a", "b"}, pr \in {"root", "admin"}}
    \cup {RawSkill("", "root")}

DeclLists(n) == UNION {[1..k -> RawSkills] : k \in 0..n}

\* the residence is the trust root; or it is below it, with a file at both;
\* or there is a directory with a short file between the two
SkillChains ==
  {<<SkillsFile(0, d)>> : d \in DeclLists(MaxDecls)}
    \cup {<<SkillsFile(1, leaf), SkillsFile(0, root)>> :
            leaf \in DeclLists(MaxDecls), root \in DeclLists(MaxDecls)}
    \cup {<<SkillsFile(2, leaf), SkillsFile(1, mid), SkillsFile(0, root)>> :
            leaf \in DeclLists(1), mid \in DeclLists(1), root \in DeclLists(1)}

SkillsInit ==
  /\ Idle
  /\ \E files \in SkillChains :
        probe = [op |-> "loadInheritedSkills", files |-> files, returned |-> FALSE,
                 out |-> [skills |-> <<>>, byId |-> <<>>]]

LoadInheritedSkillsCall ==
  /\ probe.op = "loadInheritedSkills"
  /\ ~probe.returned
  /\ probe' = [probe EXCEPT !.returned = TRUE, !.out = LoadInheritedSkills(probe.files)]
  /\ ProbeFrame

SkillsNext == LoadInheritedSkillsCall

SkillsSpec == SkillsInit /\ [][SkillsNext]_vars

(***************************************************************************)
(* The role contracts' violation policy, and a reflect-repair loop driven  *)
(* by it: the agent's output is parsed; on a violation the loop asks       *)
(* getViolationAction(role, violation, retryCount) and, told to retry,     *)
(* runs the agent again with the feedback and retryCount + 1.              *)
(***************************************************************************)
AgentRoles == {"supervisor", "parser", "planner", "specialist", "synthesizer", "verifier"}

DEFAULT_VIOLATION_POLICY == [maxRetries |-> 1, escalateToHumanOnVerifierFailure |-> TRUE]

\* a ContractViolation; suggestedFeedback is "undefined" when it is left out
ContractViolation(role, expected, suggestedFeedback) ==
  [role |-> role, expected |-> expected, suggestedFeedback |-> suggestedFeedback]

\* the feedback a contract falls back on
DefaultFeedback(role) ==
  CASE role = "supervisor" -> "Please provide valid structured output"
    [] role = "parser" -> "Provide structured parser output"
    [] role = "planner" -> "Provide valid PlannerOutput structure"
    [] role = "synthesizer" -> "Provide synthesis output"

\* violation.suggestedFeedback ?? fallback
Feedback(role, violation) ==
  IF violation.suggestedFeedback = "undefined" THEN DefaultFeedback(role)
  ELSE violation.suggestedFeedback

\* the return after the retries are used up
TerminalAction(role, violation) ==
  IF role = "synthesizer"
    THEN [action |-> "error", code |-> "INTERNAL", message |-> violation.expected]
    ELSE [action |-> "escalate_verifier", violation |-> violation]

\* getContract(role) is defined
HasContract(role) == role \in {"supervisor", "parser", "planner", "synthesizer"}

\* contract.onViolation(violation, retryCount) of the role's contract
\* (a faulty variant, for comparison: the retry limit itself still retries)
OnViolationAtLimit(role, violation, retryCount) ==
  IF retryCount <= DEFAULT_VIOLATION_POLICY.maxRetries
    THEN [action |-> "retry", feedback |-> Feedback(role, violation)]
    ELSE TerminalAction(role, violation)
OnViolation(role, violation, retryCount) ==
  IF retryCount < DEFAULT_VIOLATION_POLICY.maxRetries
    THEN [action |-> "retry", feedback |-> Feedback(role, violation)]
    ELSE TerminalAction(role, violation)

\* getViolationAction(role, violation, retryCount)
GetViolationAction(role, violation, retryCount) ==
  IF ~HasContract(role)
    THEN [action |-> "error", code |-> "INTERNAL", message |-> "No contract for role"]
    ELSE OnViolation(role, violation, retryCount)

\* ---- a reflect-repair loop on one agent ----
NoAction == [action |-> "none"]

Violations(role) ==
  {ContractViolation(role, e, f) :
     e \in {"goalSummary string", "steps array"}, f \in {"undefined", "", "Return JSON"}}

ReflectInit ==
  /\ Idle
  /\ \E role \in AgentRoles, n \in 0..MaxRetryCount :
        probe = [op |-> "reflect", role |-> role, pc |-> "running", entered |-> n,
                 retryCount |-> n, retries |-> 0,
                 violation |-> ContractViolation(role, "none", "undefined"),
                 asked |-> n, out |-> NoAction]

\* the agent's output breaks the contract
OutputViolates(violation) ==
  /\ probe.op = "reflect"
  /\ probe.pc = "running"
  /\ LET out == GetViolationAction(probe.role, violation, probe.retryCount)
     IN probe' = [probe EXCEPT
                    !.violation = violation, !.asked = probe.retryCount, !.out = out,
                    !.retryCount = IF out.action = "retry" THEN @ + 1 ELSE @,
                    !.retries = IF out.action = "retry" THEN @ + 1 ELSE @,
                    !.pc = IF out.action = "retry" THEN "running" ELSE "terminated"]
  /\ ProbeFrame

\* the agent's output passes the contract
OutputAccepted ==
  /\ probe.op = "reflect"
  /\ probe.pc = "running"
  /\ probe' = [probe EXCEPT !.pc = "accepted"]
  /\ ProbeFrame

ReflectNext ==
  \/ \E v \in Violations(probe.role) : OutputViolates(v)
  \/ OutputAccepted

ReflectSpec == ReflectInit /\ [][ReflectNext]_vars

(***************************************************************************)
(* C1: with maxConcurrent = n, the number of tasks executing inside run()  *)
(* at the same time never exceeds n, under every interleaving of run()     *)
(* calls, task completions and resumptions of released waiters.            *)
(***************************************************************************)
C1_ConcurrencyBound == Cardinality(Running) <= maxConcurrent

(***************************************************************************)
(* C2: admission is FIFO: a call that arrives while other callers are      *)
(* waiting never starts its task before those waiters (a freed slot goes   *)
(* to the released waiter, not to a newly arriving caller).                *)
(***************************************************************************)
C2_FifoAdmission ==
  \A b \in Range(startLog) : \A a \in waitingAt[b] :
     lpc[a] \notin {"queued"} /\ a \notin Range(resolved)

(***************************************************************************)
(* C3: callers placed on the wait queue are granted slots in the order in  *)
(* which they were enqueued: the waiting line (released waiters, then the  *)
(* queue) is always in enqueue order, and a later-queued call never has    *)
(* started its task while an earlier-queued one is still waiting or        *)
(* started after it.                                                       *)
(***************************************************************************)
WaitingLine == resolved \o queue

C3_QueueOrder ==
  /\ \A i, j \in DOMAIN WaitingLine :
        i < j => IndexOf(enqLog, WaitingLine[i]) < IndexOf(enqLog, WaitingLine[j])
  /\ \A i, j \in DOMAIN enqLog :
        (i < j /\ enqLog[j] \in Range(startLog)) =>
           \/ lpc[enqLog[i]] = "rejected"
           \/ /\ enqLog[i] \in Range(startLog)
              /\ IndexOf(startLog, enqLog[i]) < IndexOf(startLog, enqLog[j])

\* two calls were queued one after the other and both have started their task
C3_Witness ==
  /\ Len(enqLog) >= 2
  /\ enqLog[1] \in Range(startLog)
  /\ enqLog[2] \in Range(startLog)

(***************************************************************************)
(* C7: once a task's status is completed, failed or cancelled, no registry *)
(* operation changes that status again (as long as the task is kept), and  *)
(* the only status change updateStatus can make is pending to running.     *)
(***************************************************************************)
C7_TerminalOneWay ==
  [][\A id \in TaskIds :
       HasTask(tasks, id) =>
         /\ (GetTask(tasks, id).status \in {"completed", "failed", "cancelled"}
               /\ HasTask(tasks', id))
              => GetTask(tasks', id).status = GetTask(tasks, id).status
         /\ \A st \in Statuses :
              LET after == GetTask(UpdateStatusTasks(tasks, id, st), id).status IN
                \/ after = GetTask(tasks, id).status
                \/ GetTask(tasks, id).status = "pending" /\ after = "running"]_vars

(***************************************************************************)
(* C8: setResult on a pending or running task returns wasIdempotent =      *)
(* false; on a task that is terminal and carries a result, setResult with  *)
(* any result returns success with wasIdempotent = true and leaves the     *)
(* task's status and stored result (the whole tasks map) unchanged.        *)
(***************************************************************************)
C8_SetResultIdempotent ==
  \A id \in TaskIds : \A r \in RegResults :
     HasTask(tasks, id) =>
       LET t == GetTask(tasks, id) IN
         /\ t.status \in {"pending", "running"} =>
              /\ SetResultOutcome(tasks, id) = [success |-> TRUE, wasIdempotent |-> FALSE]
              /\ GetTask(SetResultTasks(tasks, id, r), id).result = r
         /\ (t.status \in {"completed", "failed", "cancelled"} /\ t.result # NoResult) =>
              /\ SetResultOutcome(tasks, id) = [success |-> TRUE, wasIdempotent |-> TRUE]
              /\ SetResultTasks(tasks, id, r) = tasks

\* setResult has acted: a task is terminal and carries a result
C8_Witness ==
  \E id \in TaskIds :
     /\ HasTask(tasks, id)
     /\ GetTask(tasks, id).status \in {"completed", "failed"}
     /\ GetTask(tasks, id).result \in RegResults

(***************************************************************************)
(* C4: a run() made with an event handler leads to exactly one             *)
(* run_completed handler call: none is emitted before run() returns,       *)
(* exactly one has been emitted (queued or delivered) once it has          *)
(* returned, and that one is eventually delivered, however the run ends    *)
(* (ok, partial, escalation, error, a throw caught by run(), or with the   *)
(* task cancelled in the registry meanwhile).                              *)
(***************************************************************************)
RunCompletedQueued ==
  Cardinality({k \in DOMAIN eventQueue : eventQueue[k] = "run_completed"})

C4_ExactlyOneRunCompleted ==
  /\ [](input.events.onEvent =>
          handled["run_completed"] + RunCompletedQueued
             = (IF runPc = "returned" THEN 1 ELSE 0))
  /\ (input.events.onEvent ~> [](handled["run_completed"] = 1))

\* a run whose task was cancelled meanwhile has returned and its handler
\* has been called with run_completed
C4_Witness ==
  /\ input.events.onEvent
  /\ runPc = "returned"
  /\ GetTask(tasks, taskId).status = "cancelled"
  /\ handled["run_completed"] = 1

(***************************************************************************)
(* C5: a plan step is started only when every step id in its dependsOn     *)
(* has finished executing and has its result recorded by the scheduler;    *)
(* for sequential and parallel steps alike.                                *)
(***************************************************************************)
Started(i) == phase[i] \in {"bundle", "llm", "settled", "finished"}

C5_DependenciesFirst ==
  \A i \in DOMAIN phase :
     Started(i) =>
       \A k \in DOMAIN plan.steps[i].dependsOn :
          LET dep == plan.steps[i].dependsOn[k] IN
            /\ dep \in sched.completed
            /\ \E m \in DOMAIN sched.results : sched.results[m].stepId = dep
            /\ \E j \in DOMAIN phase : plan.steps[j].id = dep /\ phase[j] = "finished"

\* a parallel step and a sequential step with dependencies have both started
C5_Witness ==
  \E i, j \in DOMAIN phase :
     /\ Started(i) /\ plan.steps[i].parallel /\ plan.steps[i].dependsOn # <<>>
     /\ Started(j) /\ ~plan.steps[j].parallel /\ Len(plan.steps[j].dependsOn) = 2

(***************************************************************************)
(* C6: run() executes plan steps only for a plan that validatePlan         *)
(* accepts: no step of a plan that validatePlan rejects is ever submitted  *)
(* for execution.                                                          *)
(***************************************************************************)
C6_OnlyValidPlansRun ==
  \A i \in DOMAIN phase :
     Started(i) => ValidatePlan(plan, DEFAULT_PLAN_CONSTRAINTS).valid

(***************************************************************************)
(* C9: once the run's task has been cancelled in the registry, no further  *)
(* plan step is started: a step that has not begun stays that way.         *)
(***************************************************************************)
Cancelled ==
  runPc # "idle" /\ HasTask(tasks, taskId) /\ GetTask(tasks, taskId).status = "cancelled"

C9_NoStartAfterCancel ==
  [][Cancelled =>
       \A i \in DOMAIN phase' :
          (i \notin DOMAIN phase \/ phase[i] = "idle") => phase'[i] = "idle"]_vars

(***************************************************************************)
(* C10: if any step result of the run, of a pipeline stage or of a plan    *)
(* step, has status escalated, the result run() returns has kind           *)
(* escalation.                                                             *)
(***************************************************************************)
C10_EscalationWins ==
  (runPc = "returned" /\ HasStatus(steps, "escalated")) => runResult = "escalation"

(***************************************************************************)
(* C11: run() returns kind ok only when every step result in the returned  *)
(* steps list, of pipeline stages and of plan steps, has status success.   *)
(***************************************************************************)
C11_OkMeansAllSucceeded ==
  (runPc = "returned" /\ runResult = "ok") =>
     \A k \in DOMAIN steps : steps[k].status = "success"

(***************************************************************************)
(* C12: run() never rejects: whatever the bundle resolver and the LLM      *)
(* client do, throwing at a pipeline stage or a plan step included, and    *)
(* whatever plan it is given, run() comes to return a well-formed result   *)
(* (a kind of OrchestrationResult, step results of status success, error   *)
(* or escalated, the same kind stored or an earlier terminal state kept in *)
(* the registry), a throw of a collaborator having become a step result of *)
(* status error and a throw of the scheduler a result of kind error.       *)
(***************************************************************************)
StepStatuses == {"success", "error", "escalated"}

WellFormedResult ==
  /\ runResult \in ResultKinds
  /\ \A k \in DOMAIN steps : steps[k].status \in StepStatuses
  /\ GetTask(tasks, taskId).status \in {"completed", "failed", "cancelled"}
  /\ (input.hasPlan /\ ~input.plan.hasSteps /\ ~HasStatus(steps, "escalated"))
        => runResult = "error"

DependsOn(planSteps, x, y) ==
  \E i \in DOMAIN planSteps :
     /\ planSteps[i].id = x
     /\ y \in Range(planSteps[i].dependsOn)
     /\ y \in StepIds(planSteps)

\* the cycles of the dependsOn relation, as lists of distinct ids
Cycles(planSteps) ==
  {c \in UNION {[1..n -> StepIds(planSteps)] : n \in 1..Cardinality(StepIds(planSteps))} :
     /\ \A i, j \in DOMAIN c : i # j => c[i] # c[j]
     /\ \A i \in DOMAIN c :
          DependsOn(planSteps, c[i], c[IF i = Len(c) THEN 1 ELSE i + 1])}

C13_CycleRejected ==
  (probe.op = "validatePlan" /\ probe.returned /\ Cycles(probe.plan.steps) # {}) =>
     /\ ~probe.out.valid
     /\ probe.out.reason = "circular_dependency"
     /\ \E c \in Cycles(probe.plan.steps) : Range(c) \subseteq Range(probe.out.details)

(***************************************************************************)
(* C14: for every plan that validatePlan accepts, the scheduling loop      *)
(* ends having executed every step of the plan exactly once, unless        *)
(* abortOnError stopped it early: it never leaves through the "no step is  *)
(* ready" stop with a step not executed.                                   *)
(***************************************************************************)
SchedulerEnded == plan.hasSteps /\ sched.pc \in {"returned", "done"}

StoppedByAbort == input.abortOnError /\ HasStatus(sched.results, "error")

C14_AcceptedPlansRunFully ==
  (/\ SchedulerEnded
   /\ ValidatePlan(plan, DEFAULT_PLAN_CONSTRAINTS).valid
   /\ ~StoppedByAbort) =>
     /\ \A i \in DOMAIN phase : phase[i] = "finished"
     /\ Len(sched.results) = Len(plan.steps)

(***************************************************************************)
(* C15: when the output of the planner stage does not satisfy the planner  *)
(* contract, run() executes no plan step on the basis of that output: no   *)
(* step of any plan is started after such a planner result.                *)
(***************************************************************************)
PlannerViolated ==
  /\ ~input.hasPlan
  /\ \E k \in DOMAIN steps :
        /\ steps[k].stepId = "planner"
        /\ ~PlannerContractParse(RunStepOutput(steps[k].status)).valid

C15_NoStepsAfterViolation ==
  PlannerViolated => \A i \in DOMAIN phase : ~Started(i)

(***************************************************************************)
(* C16: for every step, of the pipeline and of the plan, the LLM client is *)
(* called only after the escalation check on the skills of the step's      *)
(* bundle has passed: a bundle with a skill that needs escalation (a       *)
(* capability the residence lacks, with escalateIfMissing) or that asks    *)
(* for a higher privilege than the residence has ends the step as          *)
(* escalated with no LLM call, and every LLM call follows a bundle none of *)
(* whose skills is of that kind.                                           *)
(***************************************************************************)
Unfit(skills, agentResidence) ==
  LET p == GetResidencePrivilege(agentResidence) IN
    \E k \in DOMAIN skills :
       \/ PrivilegeLevel(skills[k].requiredPrivilege) > PrivilegeLevel(p)
       \/ /\ skills[k].requires # "none"
          /\ skills[k].requires \notin PRIVILEGE_CAPABILITIES[p]
          /\ skills[k].escalateIfMissing

C16_LlmAfterEscalationCheck ==
  [][/\ \A o \in BundleOutcomes :
          (StageBundleResolves(o) /\ Unfit(o.skills, StageResidence(runPc)))
             => stage' = [phase |-> "settled", status |-> "escalated"]
     /\ \A i \in DOMAIN phase : \A o \in BundleOutcomes :
          (StepBundleResolves(i, o) /\ Unfit(o.skills, plan.steps[i].agentResidence))
             => phase'[i] = "settled" /\ sres'[i] = "escalated"
     /\ (stage'.phase = "llm" /\ stage.phase # "llm")
          => \E o \in BundleOutcomes :
                /\ StageBundleResolves(o)
                /\ o.kind = "bundle"
                /\ ~Unfit(o.skills, StageResidence(runPc))
     /\ \A i \in DOMAIN phase' :
          (phase'[i] = "llm" /\ (i \notin DOMAIN phase \/ phase[i] # "llm"))
             => \E o \in BundleOutcomes :
                   /\ StepBundleResolves(i, o)
                   /\ o.kind = "bundle"
                   /\ ~Unfit(o.skills, plan.steps[i].agentResidence)]_vars

\* with the LLM client in use, a plan step has ended escalated with no LLM
\* call of its own, after stages that the LLM served
C16_Witness ==
  /\ input.executeWithLlm /\ input.llmConfigured
  /\ \E i \in DOMAIN phase : phase[i] \in {"settled", "finished"} /\ sres[i] = "escalated"
  /\ \E k \in DOMAIN steps : steps[k].stepId = "parser" /\ steps[k].status = "success"

(***************************************************************************)
(* C17: when a plan step at a specialist-privilege residence gets a bundle *)
(* with a skill that the residence may use but that requires a capability  *)
(* the residence lacks, with escalateIfMissing = true, the step's result   *)
(* has status escalated and names the first such skill of the bundle as    *)
(* missingSkill and its capability as capability; and run() returns kind   *)
(* escalation with the escalation of the first escalated result among the  *)
(* plan steps' results.                                                    *)
(***************************************************************************)
\* the first skill that the privilege may use and that requires, with
\* escalateIfMissing, a capability the privilege lacks (0 if none)
FirstLacking(skills, p) ==
  FindDetail([k \in DOMAIN skills |->
                /\ PrivilegeLevel(skills[k].requiredPrivilege) <= PrivilegeLevel(p)
                /\ skills[k].requires # "none"
                /\ skills[k].requires \notin PRIVILEGE_CAPABILITIES[p]
                /\ skills[k].escalateIfMissing])

EscalatedResults == SelectSeq(sched.results, LAMBDA x : x.status = "escalated")

C17_EscalationNamed ==
  /\ [][\A i \in DOMAIN phase : \A o \in BundleOutcomes :
          (/\ StepBundleResolves(i, o)
           /\ o.kind = "bundle"
           /\ GetResidencePrivilege(plan.steps[i].agentResidence) = "specialist"
           /\ FirstLacking(o.skills, "specialist") # 0)
            => /\ sres'[i] = "escalated"
               /\ esc'.step[i] =
                    [missingSkill |-> o.skills[FirstLacking(o.skills, "specialist")].id,
                     capability |-> o.skills[FirstLacking(o.skills, "specialist")].requires]]_vars
  /\ []((runPc = "returned" /\ sched.pc = "done" /\ EscalatedResults # <<>>)
          => /\ runResult = "escalation"
             /\ esc.run = EscalatedResults[1].escalation)

\* a run has returned kind escalation naming the skill web-fetch and the
\* capability network_access that a plan step's residence lacked
C17_Witness ==
  /\ runPc = "returned"
  /\ runResult = "escalation"
  /\ esc.run = [missingSkill |-> "web-fetch", capability |-> "network_access"]
  /\ \E i \in DOMAIN sres : sres[i] = "escalated" /\ esc.step[i] = esc.run

\* C17 as stated: whenever the result of a plan step is escalated for a
\* capability its residence lacked, run() returns kind escalation with an
\* escalation that names that step's skill and capability
C17_EveryLackNamed ==
  runPc = "returned" =>
     \A k \in DOMAIN sched.results :
        (sched.results[k].status = "escalated"
           /\ sched.results[k].escalation.capability # "undefined")
          => /\ runResult = "escalation"
             /\ esc.run = sched.results[k].escalation

(***************************************************************************)
(* C18: residence classification goes by path segments: the result is root *)
(* exactly when the path has a segment equal to "root", otherwise          *)
(* specialist exactly when it has a segment equal to "specialist",         *)
(* otherwise user (so for a path where those words are only part of a      *)
(* longer segment).                                                        *)
(***************************************************************************)
C18_ClassifiedBySegments ==
  (probe.op = "getResidencePrivilege" /\ probe.returned) =>
     probe.out = (IF "root" \in Range(probe.path) THEN "root"
                  ELSE IF "specialist" \in Range(probe.path) THEN "specialist"
                  ELSE "user")

(***************************************************************************)
(* C19: validateSkillExecution(skill, p) returns insufficient_privilege    *)
(* whenever the skill's requiredPrivilege is strictly above p, whatever    *)
(* its requires and escalateIfMissing are; missing_capability only when    *)
(* the privilege check passed and p lacks the required capability; and     *)
(* allowed exactly when both checks pass.                                  *)
(***************************************************************************)
StrictlyAbove(required, p) ==
  \/ p = "user" /\ required \in {"specialist", "root"}
  \/ p = "specialist" /\ required = "root"

Lacks(p, capability) ==
  capability # "none" /\ capability \notin PRIVILEGE_CAPABILITIES[p]

C19_PrivilegeBeforeCapability ==
  (probe.op = "validateSkillExecution" /\ probe.returned) =>
     LET skill == probe.skill
         p == probe.privilege
         result == probe.out
     IN /\ StrictlyAbove(skill.requiredPrivilege, p)
             => ~result.allowed /\ result.reason = "insufficient_privilege"
        /\ result.reason = "missing_capability"
             => /\ ~result.allowed
                /\ ~StrictlyAbove(skill.requiredPrivilege, p)
                /\ Lacks(p, skill.requires)
                /\ result.capability = skill.requires
        /\ result.allowed
             <=> (~StrictlyAbove(skill.requiredPrivilege, p) /\ ~Lacks(p, skill.requires))

\* a skill that asks for a higher privilege and, with escalateIfMissing, for
\* a capability the caller lacks has been answered insufficient_privilege
C19_Witness ==
  /\ probe.op = "validateSkillExecution" /\ probe.returned
  /\ StrictlyAbove(probe.skill.requiredPrivilege, probe.privilege)
  /\ Lacks(probe.privilege, probe.skill.requires)
  /\ probe.skill.escalateIfMissing
  /\ probe.out.reason = "insufficient_privilege"

(***************************************************************************)
(* C20: cancel(id) on a pending or running task sets its status to         *)
(* cancelled, leaves its cancellation signal aborted and returns true,     *)
(* with every other task and signal as before; on a completed, failed or   *)
(* cancelled task, or on an unknown id, it returns false and changes no    *)
(* task and no cancellation signal.                                        *)
(***************************************************************************)
C20_CancelSemantics ==
  \A id \in TaskIds :
     LET after == CancelTasks(tasks, id)
         signals == CancelControllers(abortControllers, tasks, id)
     IN IF HasTask(tasks, id) /\ GetTask(tasks, id).status \in {"pending", "running"}
          THEN /\ CancelReturns(tasks, id)
               /\ Len(after) = Len(tasks)
               /\ \A k \in DOMAIN tasks :
                     after[k] = IF tasks[k].id = id
                                  THEN [tasks[k] EXCEPT !.status = "cancelled"]
                                  ELSE tasks[k]
               /\ signals[id] = "aborted"
               /\ \A j \in TaskIds \ {id} : signals[j] = abortControllers[j]
          ELSE /\ ~CancelReturns(tasks, id)
               /\ after = tasks
               /\ signals = abortControllers

\* cancel has acted on one task (cancelled, its signal aborted) while
\* another task is completed, on which cancel returns false
C20_Witness ==
  \E id, other \in TaskIds :
     /\ HasTask(tasks, id) /\ GetTask(tasks, id).status = "cancelled"
     /\ abortControllers[id] = "aborted"
     /\ HasTask(tasks, other) /\ GetTask(tasks, other).status = "completed"
     /\ ~CancelReturns(tasks, other)

(***************************************************************************)
(* C21: with queueTimeoutMs > 0, a waiter whose timer fires before it is   *)
(* granted a slot is removed from the wait queue (the other waiters keep   *)
(* their order) and its run() call fails; from then on it is never in the  *)
(* queue, never released, its task is never started and it never takes a   *)
(* slot; a slot freed later is handed to the oldest caller that is still   *)
(* waiting in the queue.                                                   *)
(***************************************************************************)
C21_TimedOutWaiterLeaves ==
  [][/\ \A c \in Calls :
          LimQueueTimeout(c) =>
            /\ queueTimeoutMs > 0
            /\ lpc'[c] = "rejected"
            /\ c \notin Range(queue')
            /\ queue' = SelectSeq(queue, LAMBDA d : d # c)
            /\ currentCount' = currentCount
     /\ \A c \in Calls :
          lpc[c] = "rejected" =>
            /\ lpc'[c] = "rejected"
            /\ c \notin Range(queue') \cup Range(resolved') \cup Range(startLog')
     /\ \A c \in Calls :
          ((LimTaskSettles(c, "returned") \/ LimTaskSettles(c, "threw")) /\ queue # <<>>) =>
            /\ lpc[Head(queue)] = "queued"
            /\ resolved' = Append(resolved, Head(queue))]_vars

\* c2 was waiting when c3 arrived and was queued behind it; c2's wait timed
\* out (clearQueue would have rejected c3 too), and c3 has started its task
C21_Witness ==
  /\ queueTimeoutMs > 0
  /\ \E c2, c3 \in Calls :
        /\ c2 \in waitingAt[c3]
        /\ c3 \in Range(enqLog)
        /\ lpc[c2] = "rejected"
        /\ c3 \in Range(startLog)

(***************************************************************************)
(* C22: when the task of a run() call throws, the running count goes down  *)
(* by one and the longest-waiting queued caller, if there is one, is       *)
(* released, as on normal completion; the count always equals the number   *)
(* of tasks being executed, so that once every task has finished, however  *)
(* it ended, and nobody waits, the count is 0.                             *)
(***************************************************************************)
C22_ThrowFreesSlot ==
  [][/\ \A c \in Calls :
          LimTaskSettles(c, "threw") =>
            /\ currentCount' = currentCount - 1
            /\ IF queue # <<>>
                 THEN queue' = Tail(queue) /\ resolved' = Append(resolved, Head(queue))
                 ELSE UNCHANGED <<queue, resolved>>
     /\ currentCount' = Cardinality(Running')
     /\ (Running' = {} /\ Waiting' = {}) => currentCount' = 0]_vars

\* one slot: c1's task threw while c2 was queued behind it, c2 was released,
\* ran and returned, and nothing is running or waiting any more
C22_Witness ==
  /\ maxConcurrent = 1
  /\ currentCount = 0
  /\ Running = {} /\ Waiting = {}
  /\ \E c1, c2 \in Calls :
        /\ lpc[c1] = "threw"
        /\ lpc[c2] = "returned"
        /\ c2 \in Range(enqLog)
        /\ \A c3 \in Calls \ {c1, c2} : lpc[c3] = "idle"

(***************************************************************************)
(* C23: with abortOnError set, once the results of a sub-batch of plan     *)
(* steps (one sequential step, or the parallel steps of a pass) include a  *)
(* result with status error, executeStepsWithEvents has returned: no plan  *)
(* step that has not been started is started from then on, and the results *)
(* collected so far are what run() appends to its steps.                   *)
(***************************************************************************)
C23_AbortOnErrorStops ==
  [][(input.abortOnError /\ HasStatus(sched.results, "error")) =>
       /\ sched.pc \in {"returned", "done"}
       /\ sched'.results = sched.results
       /\ \A i \in DOMAIN phase : phase[i] = "idle" => phase'[i] = "idle"
       /\ sched'.pc = "done" =>
            /\ Len(steps') >= Len(sched.results)
            /\ SubSeq(steps', Len(steps') - Len(sched.results) + 1, Len(steps'))
                 = sched.results]_vars

\* a run with abortOnError has returned after a plan step failed, and a
\* step of a later sub-batch was never started
C23_Witness ==
  /\ input.abortOnError
  /\ runPc = "returned"
  /\ sched.pc = "done"
  /\ HasStatus(sched.results, "error")
  /\ \E i \in DOMAIN phase : phase[i] = "idle"
  /\ \E k \in DOMAIN steps : steps[k] \in Range(sched.results) /\ steps[k].status = "error"

(***************************************************************************)
(* C24: once more than totalTimeoutMs has passed since the run started, a  *)
(* pipeline stage or plan step that begins is failed at once with an error *)
(* result, without waiting for its bundle or for the LLM; the passing of   *)
(* the time itself changes nothing for a step in flight, which goes on to  *)
(* the result its collaborators give it.                                   *)
(***************************************************************************)
NotBegun(ph, i) == i \notin DOMAIN ph \/ ph[i] \in {"idle", "queued"}

C24_TimeoutBeforeStep ==
  [][/\ expired =>
          /\ \A i \in DOMAIN phase' :
                (NotBegun(phase, i) /\ ~NotBegun(phase', i)) =>
                   phase'[i] = "settled" /\ sres'[i] = "error"
          /\ (runPc' \in Stages /\ runPc' # runPc) =>
                stage' = [phase |-> "settled", status |-> "error"]
          /\ \A i \in DOMAIN phase, o \in BundleOutcomes :
                StepBundleResolves(i, o) =>
                   LET status == AfterBundle(o, plan.steps[i].agentResidence)
                   IN IF status = "llm" THEN phase'[i] = "llm" ELSE sres'[i] = status
          /\ \A i \in DOMAIN phase, o \in LlmOutcomes :
                StepLlmResolves(i, o) => sres'[i] = AfterLlm(o)
     /\ (expired' /\ ~expired) => UNCHANGED <<phase, sres, stage, sched, runPc>>]_vars

\* no collaborator of this run fails, so the error result is the timeout's:
\* the time ran out while steps of the parallel fan-out were in flight; they
\* succeeded all the same, and the step that was waiting for a slot failed
\* when it began
C24_Witness ==
  /\ expired
  /\ input.faults = 0
  /\ \E j \in DOMAIN sres : sres[j] = "error"
  /\ Cardinality({i \in DOMAIN sres : sres[i] = "success"}) >= 2

(***************************************************************************)
(* C25: the event handler cannot influence the orchestration.  A call of   *)
(* the handler, whether it returns, throws, or returns a promise that      *)
(* rejects or never settles, leaves everything run() works with as it is;  *)
(* emitting an event changes nothing but the queue of handler calls; and   *)
(* every segment of run() computes its next state from the state without   *)
(* that queue.  So the steps executed, their order and the result are the  *)
(* same with no handler and with any handler.                              *)
(***************************************************************************)
Silent(r) == [r EXCEPT !.evq = <<>>]

WithoutIndex(ts, k) == SubSeq(ts, 1, k - 1) \o SubSeq(ts, k + 1, Len(ts))

C26_BoundedByEviction ==
  [][/\ Len(tasks') <= maxTasks
     /\ \A tick \in {0, 1} :
          RegCreate(tick) =>
            LET new == tasks'[Len(tasks')] IN
            /\ new.id = nextTaskId' /\ new.status = "pending" /\ new.createdAt = now'
            /\ abortControllers'[new.id] = "live"
            /\ IF Len(tasks) >= maxTasks
                 THEN \E k \in DOMAIN tasks :
                        /\ \A j \in DOMAIN tasks : tasks[k].createdAt <= tasks[j].createdAt
                        /\ tasks' = Append(WithoutIndex(tasks, k), new)
                        /\ abortControllers'[tasks[k].id] = "absent"
                        /\ \A id \in TaskIds \ {tasks[k].id, new.id} :
                              abortControllers'[id] = abortControllers[id]
                 ELSE /\ tasks' = Append(tasks, new)
                      /\ \A id \in TaskIds \ {new.id} :
                            abortControllers'[id] = abortControllers[id]]_vars

\* a registry for two tasks after three creates at three different times:
\* the first task and its handle are gone, the two later ones are kept
C26_Witness ==
  /\ maxTasks = 2
  /\ Len(tasks) = 2
  /\ nextTaskId = 3
  /\ tasks[1].id = 2 /\ tasks[2].id = 3
  /\ tasks[1].createdAt < tasks[2].createdAt
  /\ abortControllers[1] = "absent"
  /\ abortControllers[2] = "live" /\ abortControllers[3] = "live"

(***************************************************************************)
(* C27: validatePlan reports the first constraint that the plan breaks, in *)
(* the order too_many_steps, too_much_parallelism, circular_dependency,    *)
(* missing_dependency, the residence and capability of the steps (step by  *)
(* step in plan order, the residence of a step before its capability),     *)
(* unauthorized_escalation; it accepts a plan exactly when the plan breaks *)
(* none of them.  The constraints are stated here on the plan itself.      *)
(***************************************************************************)
\* the steps marked parallel whose dependsOn has the same elements as step i's
ParallelPeers(planSteps, i) ==
  {j \in DOMAIN planSteps :
     planSteps[j].parallel /\ Range(planSteps[j].dependsOn) = Range(planSteps[i].dependsOn)}

\* what is wrong with a single step, if anything
StepBreaks(step, cfg) ==
  IF Len(step.agentResidence) < 2 \/ step.agentResidence[1] # "Liku"
    THEN "invalid_residence"
  ELSE IF \E cap \in {"escalate", "network_access"} :
             /\ HasCapability(GetResidencePrivilege(step.agentResidence), cap)
             /\ cap \notin cfg.allowedCapabilities
    THEN "unauthorized_capability"
  ELSE "none"

\* the ids that the steps with an id in S list in their dependsOn
DependedOn(planSteps, S) == {y \in StepIds(planSteps) : \E x \in S : DependsOn(planSteps, x, y)}

\* the ids reached from the ids in S by following dependsOn up to n times
RECURSIVE ReachedFrom(_, _, _)
ReachedFrom(planSteps, S, n) ==
  IF n = 0 THEN {}
  ELSE DependedOn(planSteps, S) \cup ReachedFrom(planSteps, DependedOn(planSteps, S), n - 1)

\* some step depends, directly or through other steps, on itself
HasCycle(planSteps) ==
  \E x \in StepIds(planSteps) : x \in ReachedFrom(planSteps, {x}, Len(planSteps))

HasMissing(planSteps) ==
  \E i \in DOMAIN planSteps :
     \E d \in Range(planSteps[i].dependsOn) : d \notin StepIds(planSteps)

\* the constraints that the plan breaks
BrokenConstraints(p, cfg) ==
  (IF Len(p.steps) > cfg.maxSteps THEN {"too_many_steps"} ELSE {})
    \cup (IF \E i \in DOMAIN p.steps :
               Cardinality(ParallelPeers(p.steps, i)) > cfg.maxParallelism
            THEN {"too_much_parallelism"} ELSE {})
    \cup (IF HasCycle(p.steps) THEN {"circular_dependency"} ELSE {})
    \cup (IF HasMissing(p.steps) THEN {"missing_dependency"} ELSE {})
    \cup ({StepBreaks(p.steps[i], cfg) : i \in DOMAIN p.steps} \ {"none"})
    \cup (IF p.escalationRequests /\ ~cfg.allowEscalationRequests
            THEN {"unauthorized_escalation"} ELSE {})

\* the first step, in plan order, with something wrong
FirstBadStep(p, cfg) ==
  p.steps[CHOOSE i \in DOMAIN p.steps :
            /\ StepBreaks(p.steps[i], cfg) # "none"
            /\ \A j \in 1..(i - 1) : StepBreaks(p.steps[j], cfg) = "none"]

\* the reason of the first constraint, in the order of the claim, that the
\* plan breaks ("none" when it breaks no constraint)
FirstBroken(p, cfg) ==
  LET broken == BrokenConstraints(p, cfg)
  IN IF "too_many_steps" \in broken THEN "too_many_steps"
     ELSE IF "too_much_parallelism" \in broken THEN "too_much_parallelism"
     ELSE IF "circular_dependency" \in broken THEN "circular_dependency"
     ELSE IF "missing_dependency" \in broken THEN "missing_dependency"
     ELSE IF broken \cap {"invalid_residence", "unauthorized_capability"} # {}
       THEN StepBreaks(FirstBadStep(p, cfg), cfg)
     ELSE IF "unauthorized_escalation" \in broken THEN "unauthorized_escalation"
     ELSE "none"

C27_FirstFailingCheck ==
  (probe.op = "validatePlan" /\ probe.returned) =>
     /\ probe.out.reason = FirstBroken(probe.plan, probe.cfg)
     /\ probe.out.valid <=> BrokenConstraints(probe.plan, probe.cfg) = {}

\* a plan that breaks the parallelism limit, has a cycle and a step outside
\* Liku/ and asks for an escalation was rejected for its parallelism
C27_Witness ==
  /\ probe.op = "validatePlan" /\ probe.returned
  /\ {"too_much_parallelism", "circular_dependency", "invalid_residence",
      "unauthorized_escalation"} \subseteq BrokenConstraints(probe.plan, probe.cfg)
  /\ ~probe.out.valid
  /\ probe.out.reason = "too_much_parallelism"

(***************************************************************************)
(* C28: for a plan within the step limit, validatePlan answers             *)
(* too_much_parallelism exactly when, among the steps whose dependsOn      *)
(* lists have the same elements (in whatever order), more than             *)
(* maxParallelism are marked parallel; with exactly maxParallelism         *)
(* parallel steps in a group the plan is not rejected for parallelism.     *)
(***************************************************************************)
C28_ParallelismBoundary ==
  (probe.op = "validatePlan" /\ probe.returned
     /\ Len(probe.plan.steps) <= probe.cfg.maxSteps) =>
     (probe.out.reason = "too_much_parallelism"
        <=> \E i \in DOMAIN probe.plan.steps :
               Cardinality(ParallelPeers(probe.plan.steps, i)) > probe.cfg.maxParallelism)

\* two parallel steps that list a and b in different orders, and a third,
\* sequential step with the same dependencies, against maxParallelism = 2:
\* the group is at the limit and the plan is not rejected for parallelism
C28_Witness ==
  /\ probe.op = "validatePlan" /\ probe.returned
  /\ probe.cfg.maxParallelism = 2
  /\ \E i, j, k \in DOMAIN probe.plan.steps :
        /\ probe.plan.steps[i].dependsOn = <<"a", "b">> /\ probe.plan.steps[i].parallel
        /\ probe.plan.steps[j].dependsOn = <<"b", "a">> /\ probe.plan.steps[j].parallel
        /\ probe.plan.steps[k].dependsOn = <<"b", "a">> /\ ~probe.plan.steps[k].parallel
        /\ Cardinality(ParallelPeers(probe.plan.steps, i)) = 2
  /\ probe.out.reason # "too_much_parallelism"

(***************************************************************************)
(* C29: during a run with config.maxConcurrency = k, at most k plan steps  *)
(* of the run are in flight (begun and not yet out of the limiter) at the  *)
(* same time, whatever k >= 1 is.                                          *)
(***************************************************************************)
InFlight == {i \in DOMAIN phase : phase[i] \in {"bundle", "llm", "settled"}}

C29_ConfiguredConcurrency == Cardinality(InFlight) <= input.maxConcurrency

(***************************************************************************)
(* C30: validatePlan leaves the plan it is given as it was: once the call  *)
(* has returned, every step's id, agentResidence, parallel flag and        *)
(* dependsOn list, the order of its elements included, is what the caller  *)
(* supplied.                                                               *)
(***************************************************************************)
C30_PlanUnmodified ==
  (probe.op = "validatePlan" /\ probe.returned) => probe.after = probe.plan

(***************************************************************************)
(* C31: within one ready batch the steps not marked parallel run one at a  *)
(* time and in the order of the plan's array: the steps of the batch still *)
(* to run are in array order and only the first of them has started, no    *)
(* other sequential step is in progress meanwhile, and the scheduler moves *)
(* to the next one only when the one before it has finished.               *)
(***************************************************************************)
InProgress(i) == phase[i] \notin {"idle", "finished"}

SequentialOneAtATime ==
  runPc = "executing" =>
    /\ \A i \in DOMAIN phase :
         (~plan.steps[i].parallel /\ InProgress(i)) =>
            (sched.pc = "seq" /\ i = Head(sched.seqLeft))
    /\ sched.pc = "seq" =>
         /\ \A k \in 1..(Len(sched.seqLeft) - 1) : sched.seqLeft[k] < sched.seqLeft[k + 1]
         /\ \A k \in 2..Len(sched.seqLeft) : phase[sched.seqLeft[k]] = "idle"
         /\ \A k \in DOMAIN sched.seqLeft : ~plan.steps[sched.seqLeft[k]].parallel

NextAfterPrevious ==
  (runPc = "executing" /\ sched.pc = "seq" /\ sched'.seqLeft # sched.seqLeft) =>
     /\ phase[Head(sched.seqLeft)] = "finished"
     /\ sched'.seqLeft = Tail(sched.seqLeft) \/ Tail(sched.seqLeft) = <<>>
                                              \/ sched'.pc = "returned"

C31_SequentialInArrayOrder == []SequentialOneAtATime /\ [][NextAfterPrevious]_vars

\* a and c are the sequential steps of the first batch of the mixed plan: c
\* is at work, a has finished, and the parallel step b has not begun
C31_Witness ==
  /\ runPc = "executing" /\ sched.pc = "seq"
  /\ plan = MixedPlan
  /\ sched.seqLeft = <<3>>
  /\ phase[1] = "finished" /\ phase[3] = "bundle" /\ phase[2] = "idle"

(***************************************************************************)
(* C32: the index loaded for a chain of skills.xml files has exactly one   *)
(* entry per declared skill id; the entry is built from a declaration of   *)
(* that id in the file closest to the residence that declares it; and the  *)
(* entries are in the order of their ids.                                  *)
(***************************************************************************)
DeclaredIds(file) == {file.decls[k].id : k \in DOMAIN file.decls} \ {""}

\* the position, in the list of files, of the one closest to the residence
\* that declares the id
Closest(files, id) ==
  CHOOSE f \in DOMAIN files :
    /\ id \in DeclaredIds(files[f])
    /\ \A g \in DOMAIN files : id \in DeclaredIds(files[g]) => f <= g

C32_ClosestDeclarationWins ==
  (probe.op = "loadInheritedSkills" /\ probe.returned) =>
    LET files == probe.files
        skills == probe.out.skills
    IN /\ {skills[k].id : k \in DOMAIN skills} = UNION {DeclaredIds(files[f]) : f \in DOMAIN files}
       /\ \A j, k \in DOMAIN skills : skills[j].id = skills[k].id => j = k
       /\ \A k \in DOMAIN skills :
             LET file == files[Closest(files, skills[k].id)]
             IN /\ skills[k].residencePath = file.dir
                /\ \E d \in DOMAIN file.decls :
                      /\ file.decls[d].id = skills[k].id
                      /\ skills[k].requiredPrivilege = NormalizePrivilege(file.decls[d].privilege)
       /\ \A k \in 1..(Len(skills) - 1) : IdRank(skills[k].id) < IdRank(skills[k + 1].id)

\* the root declares a with privilege root; the residence declares b and
\* then a, a with a privilege that is not one: the index has a from the
\* residence, before b
C32_Witness ==
  /\ probe.op = "loadInheritedSkills" /\ probe.returned
  /\ probe.files = <<SkillsFile(1, <<RawSkill("b", "root"), RawSkill("a", "admin")>>),
                     SkillsFile(0, <<RawSkill("a", "root")>>)>>
  /\ probe.out.skills =
       <<[id |-> "a", residencePath |-> 1, requiredPrivilege |-> "user"],
         [id |-> "b", residencePath |-> 1, requiredPrivilege |-> "root"]>>

(***************************************************************************)
(* C33: the index does not depend on the order of the <skill> elements     *)
(* inside a file: with the elements of any one file of the chain put in    *)
(* another order, loadInheritedSkills returns the same list of skills.     *)
(***************************************************************************)
Reorderings(s) ==
  {[k \in DOMAIN s |-> s[pi[k]]] :
     pi \in {q \in [DOMAIN s -> DOMAIN s] : \A i, j \in DOMAIN s : q[i] = q[j] => i = j}}

C33_OrderInsideFileIrrelevant ==
  (probe.op = "loadInheritedSkills" /\ probe.returned) =>
    \A f \in DOMAIN probe.files :
      \A decls \in Reorderings(probe.files[f].decls) :
        LoadInheritedSkills([probe.files EXCEPT ![f].decls = decls]).skills = probe.out.skills

(***************************************************************************)
(* C34: for each of the four role contracts, a violation reported with a   *)
(* retryCount below the limit of 1 is answered by retry, carrying the      *)
(* violation's suggestedFeedback when it has one, and a violation reported *)
(* with any retryCount from 1 on by the role's terminal action:            *)
(* escalate_verifier for supervisor, parser and planner, error for the     *)
(* synthesizer.  A loop that starts at retryCount 0 so retries at most     *)
(* once.                                                                   *)
(***************************************************************************)
C34_OneRetryThenTerminal ==
  (probe.op = "reflect" /\ probe.out # NoAction /\ HasContract(probe.role)) =>
    /\ probe.asked < 1 =>
         /\ probe.out.action = "retry"
         /\ probe.violation.suggestedFeedback # "undefined" =>
               probe.out.feedback = probe.violation.suggestedFeedback
    /\ probe.asked >= 1 =>
         /\ probe.out.action =
              (IF probe.role = "synthesizer" THEN "error" ELSE "escalate_verifier")
         /\ probe.pc = "terminated"
    /\ probe.entered = 0 => probe.retries <= 1

\* the planner's loop, entered at retryCount 0, has retried once and its
\* second violation was answered by escalate_verifier
C34_Witness ==
  /\ probe.op = "reflect"
  /\ probe.role = "planner" /\ probe.entered = 0
  /\ probe.retries = 1 /\ probe.asked = 1
  /\ probe.pc = "terminated"
  /\ probe.out.action = "escalate_verifier"

(***************************************************************************)
(* C35: the capability sets are nested: a capability that hasCapability    *)
(* grants to a privilege is granted to every privilege at or above it;     *)
(* root is granted every capability and user exactly read_repo.            *)
(***************************************************************************)
C35_CapabilitiesNested ==
  (probe.op = "hasCapability" /\ probe.returned) =>
    /\ probe.out =>
         \A q \in Privileges :
           PrivilegeLevel(q) >= PrivilegeLevel(probe.privilege) =>
              HasCapability(q, probe.capability)
    /\ probe.privilege = "root" => probe.out
    /\ probe.privilege = "user" => (probe.out <=> probe.capability = "read_repo")
    /\ PRIVILEGE_CAPABILITIES.user \subseteq PRIVILEGE_CAPABILITIES.specialist
    /\ PRIVILEGE_CAPABILITIES.specialist \subseteq PRIVILEGE_CAPABILITIES.root

\* a capability the specialist has, and one it has not while root has it
C35_Witness ==
  /\ probe.op = "hasCapability" /\ probe.returned
  /\ probe.privilege = "specialist"
  /\ \/ probe.capability = "write_repo" /\ probe.out /\ ~HasCapability("user", "write_repo")
     \/ probe.capability = "escalate" /\ ~probe.out /\ HasCapability("root", "escalate")

(***************************************************************************)
(* C36: between the cancel(taskId) of another client and the setResult of  *)
(* the run itself, the call that comes first on the running task decides   *)
(* its one terminal status.  Once cancelled, the task stays cancelled and  *)
(* without a result: setResult reports failure and changes nothing.  Once  *)
(* completed or failed, cancel returns false and changes nothing.  A       *)
(* terminal status is never replaced.                                      *)
(***************************************************************************)
C36_FirstCallDecides ==
  [][(runPc # "idle" /\ HasTask(tasks, taskId)) =>
       LET t == GetTask(tasks, taskId) IN
         /\ t.status = "cancelled" =>
              /\ HasTask(tasks', taskId)
              /\ GetTask(tasks', taskId).status = "cancelled"
              /\ GetTask(tasks', taskId).result = NoResult
              /\ ~SetResultOutcome(tasks, taskId).success
              /\ \A kind \in {"ok", "partial", "escalation", "error"} :
                    SetResultTasks(tasks, taskId, [kind |-> kind]) = tasks
         /\ t.status \in {"completed", "failed"} =>
              /\ tasks' = tasks
              /\ t.result # NoResult
              /\ ~CancelReturns(tasks, taskId)
              /\ CancelTasks(tasks, taskId) = tasks
              /\ CancelControllers(abortControllers, tasks, taskId) = abortControllers]_vars

\* the task was cancelled while the run was at work; the run has since
\* finished and called setResult: the task is cancelled and has no result
C36_Witness ==
  /\ runPc = "returned" /\ runResult = "ok"
  /\ HasTask(tasks, taskId)
  /\ GetTask(tasks, taskId).status = "cancelled"
  /\ GetTask(tasks, taskId).result = NoResult
  /\ abortControllers[taskId] = "aborted"

(***************************************************************************)
(* C37: a plan that validatePlan accepts under constraintsFromPrivilege(p) *)
(* has no step whose residence gives a privilege above p.                  *)
(***************************************************************************)
C37_NoStepAboveContext ==
  (probe.op = "validatePlan" /\ probe.returned /\ probe.out.valid) =>
    \A i \in DOMAIN probe.plan.steps :
      PrivilegeLevel(GetResidencePrivilege(probe.plan.steps[i].agentResidence))
        <= PrivilegeLevel(probe.context)

(***************************************************************************)
(* C38: when validatePlan accepts the plan with maxParallelism = k, no     *)
(* ready batch of the scheduler has more than k steps marked parallel: at  *)
(* most k parallel steps are handed to the limiter together.               *)
(***************************************************************************)
AcceptedWith(k) ==
  ValidatePlan(plan, [DEFAULT_PLAN_CONSTRAINTS EXCEPT !.maxParallelism = k]).valid

C38_BatchWithinParallelism ==
  runPc = "executing" =>
    \A k \in 1..DEFAULT_PLAN_CONSTRAINTS.maxParallelism :
      AcceptedWith(k) => Len(sched.parBatch) <= k

(***************************************************************************)
(* C39: when every started task settles, no caller of run() stays in the   *)
(* wait queue for ever: it is granted a slot and starts its task, or its   *)
(* wait is rejected.  A wait is rejected only by the queue timer, which    *)
(* needs queueTimeoutMs > 0, or by clearQueue().  Once every call made has *)
(* settled, the running count is 0 and nobody is waiting.                  *)
(***************************************************************************)
Settled(c) == lpc[c] \in {"idle", "returned", "threw", "rejected", "refused"}

NoWaiterForever == \A c \in Calls : (lpc[c] = "queued") ~> (lpc[c] # "queued")

RejectedByTimerOrClear ==
  \A c \in Calls :
    (lpc[c] # "rejected" /\ lpc'[c] = "rejected") =>
       \/ queueTimeoutMs > 0 /\ queue' = RemoveEntry(queue, c)
       \/ queue' = <<>> /\ \A d \in Range(queue) : lpc'[d] = "rejected"

QuietWhenSettled ==
  (\A c \in Calls : Settled(c)) => (currentCount = 0 /\ queue = <<>> /\ resolved = <<>>)

C39_EveryWaiterServed ==
  NoWaiterForever /\ []QuietWhenSettled /\ [][RejectedByTimerOrClear]_vars

\* a caller that had to wait has started its task, another one's wait was
\* rejected, and the first task has settled
C39_Witness ==
  \E c, d \in Calls :
     /\ c \in Range(enqLog) /\ lpc[c] = "running"
     /\ d \in Range(enqLog) /\ lpc[d] = "rejected"
     /\ \E e \in Calls : lpc[e] \in {"returned", "threw"}

(***************************************************************************)
(* C40: the taskId and the status in the response to a POST                *)
(* /a2a/tasks/send are those of the task that this request's own           *)
(* orchestrator.run() created, also when other requests are in progress.   *)
(***************************************************************************)
C40_ResponseNamesOwnTask ==
  probe.op = "send" =>
    \A c \in Calls :
      lpc[c] = "responded" =>
        /\ probe.response[c].taskId = probe.own[c]
        /\ probe.response[c].status = probe.ownStatus[c]

====
